---- MODULE Spec2Model ----
(***************************************************************************)
(* Enemy steering AI and combat coordination of the dungeon game.          *)
(*                                                                         *)
(* Numbers.  World coordinates and velocities are fixed point, in          *)
(* hundredths of a world unit (SC).  Unit vectors, weights and scores are  *)
(* in thousandths (K).  Angles are in milliradians.  Distances are         *)
(* compared through their squares, which is exact on integers.             *)
(***************************************************************************)
EXTENDS Integers, Sequences, FiniteSets, TLC

\* ------------------------------------------------------------------------
\* Fixed-point scales of the model
\* ------------------------------------------------------------------------
SC == 10 * 10
K == 10 * 10 * 10

\* ------------------------------------------------------------------------
\* Program constants
\* ------------------------------------------------------------------------
TILE == 32
ACCEL == 55
FRICTION == 82
MAX_SPEED == 340
PLAYER_SIZE == 20
SWING_DURATION == 40
SWORD_ARM_LENGTH == 15
SWORD_BLADE_LENGTH == 40
NUM_DIRS == 16
PI == 3142
HALF_PI == 1571
TWO_PI == 6283

\* ------------------------------------------------------------------------
\* Arithmetic helpers
\* ------------------------------------------------------------------------
Abs(a) == IF a < 0 THEN -a ELSE a
Max(a, b) == IF a > b THEN a ELSE b
Min(a, b) == IF a < b THEN a ELSE b

\* Division rounding toward zero (floating-point products are sign-symmetric).
Quot(a, b) == IF a >= 0 THEN a \div b ELSE -((-a) \div b)

\* Product of two values in thousandths.
Mul(a, b) == Quot(a * b, K)

\* Math.floor(v / TILE) of a coordinate in hundredths.
TileOf(v) == v \div (TILE * SC)

\* Math.ceil(difficulty) of a difficulty given in halves.
CeilHalf(d2) == -((-d2) \div 2)

RECURSIVE ISqrtB(_, _, _)
ISqrtB(n, lo, hi) ==
  IF lo >= hi THEN lo
  ELSE LET m == (lo + hi + 1) \div 2
       IN IF m * m <= n THEN ISqrtB(n, m, hi) ELSE ISqrtB(n, lo, m - 1)

\* Math.sqrt, rounded down.
ISqrt(n) == IF n <= 0 THEN 0 ELSE ISqrtB(n, 0, 46340)

Dist2(ax, ay, bx, by) == (ax - bx) * (ax - bx) + (ay - by) * (ay - by)

\* Square of a length given in world units, in hundredths squared.
Sq(units) == (units * SC) * (units * SC)

\* ------------------------------------------------------------------------
\* Trigonometry in milliradians / thousandths
\* ------------------------------------------------------------------------
\* atan(t) for 0 <= t <= 1 (t in thousandths).
AtanUnit(t) == Mul(785, t) + Mul(273, Mul(t, K - t))

\* Math.atan2(y, x); atan2(0, 0) is 0.
Atan2(y, x) ==
  IF x = 0 /\ y = 0 THEN 0
  ELSE LET ax == Abs(x)
           ay == Abs(y)
           a == IF ax >= ay THEN AtanUnit((ay * K) \div ax)
                ELSE HALF_PI - AtanUnit((ax * K) \div ay)
           q == IF x >= 0 THEN a ELSE PI - a
       IN IF y < 0 THEN -q ELSE q

\* An angle brought into (-PI, PI].
WrapAngle(a) ==
  LET m == a % TWO_PI
  IN IF m > PI THEN m - TWO_PI ELSE m

CosQ(a) ==
  LET x2 == Mul(a, a)
      x4 == Mul(x2, x2)
      x6 == Mul(x4, x2)
  IN K - (x2 \div 2) + (x4 \div 24) - (x6 \div 720)

\* Math.cos and Math.sin.
Cos(a) ==
  LET b == Abs(WrapAngle(a))
  IN IF b > HALF_PI THEN -CosQ(PI - b) ELSE CosQ(b)

Sin(a) == Cos(a - HALF_PI)

\* DIR_VECTORS[i] = (cos, sin)(i / NUM_DIRS * 2 PI), i = 0 .. 15 (index i + 1).
DIR_X == << 1000, 924, 707, 383, 0, -383, -707, -924,
            -1000, -924, -707, -383, 0, 383, 707, 924 >>
DIR_Y == << 0, 383, 707, 924, 1000, 924, 707, 383,
            0, -383, -707, -924, -1000, -924, -707, -383 >>
Dirs == 0 .. (NUM_DIRS - 1)
DirX(i) == DIR_X[i + 1]
DirY(i) == DIR_Y[i + 1]

\* An array of NUM_DIRS numbers, F(i) at index i + 1.
Array16(F(_)) == << >> \o [ k \in 1 .. NUM_DIRS |-> F(k - 1) ]

\* ------------------------------------------------------------------------
\* Dungeon definitions (the data the game is started with)
\* ------------------------------------------------------------------------
\* Tile values of a map.
T_FLOOR == 0
T_WALL == 1
T_LOOT == 2
T_TRAP == 3
T_ENEMY == 4
T_EXIT == 5
T_GOLD == 6
T_HEAL == 7
T_DOOR == 8
T_KEY == 9

\* Enemy types: attackStyle "" stands for a type without the field.
TypePlain == [attackStyle |-> "", swordLength |-> 0]
TypeSword == [attackStyle |-> "sword", swordLength |-> 0]
TypeShortSword == [attackStyle |-> "sword", swordLength |-> 12]
TypeDash == [attackStyle |-> "dash", swordLength |-> 0]
TypeProjectile == [attackStyle |-> "projectile", swordLength |-> 0]

\* getEnemyTypesForTheme(themeId): types without an attackStyle.
ThemeTypes == << TypePlain >>

\* The number of enemy markers of a grid.
EnemyCount(m) ==
  Cardinality({ rc \in (1 .. Len(m)) \X (1 .. Len(m[1])) : m[rc[1]][rc[2]] = T_ENEMY })

\* The level object the editor hands to enterDungeon(null, level).  The
\* difficulty is kept in halves (difficulty2 = 2 * difficulty).
CustomLevel(m, startCol, startRow) ==
  [ map |-> m,
    startPixel |-> << startCol * TILE * SC + (TILE * SC) \div 2,
                      startRow * TILE * SC + (TILE * SC) \div 2 >>,
    playerHP |-> 10, trapDamage |-> 2, enemyDamage |-> 3,
    enemyHP |-> 2 + EnemyCount(m) \div 4,
    enemyTypes |-> ThemeTypes,
    difficulty2 |-> 2 * Max(1, Min(4, (EnemyCount(m) + 2) \div 3)) ]

\* A dungeon entry of GAME_DATA.dungeons.
GameDungeon(m, startCol, startRow, types, d2, ehp) ==
  [ map |-> m,
    startPixel |-> << startCol * TILE * SC + (TILE * SC) \div 2,
                      startRow * TILE * SC + (TILE * SC) \div 2 >>,
    playerHP |-> 10, trapDamage |-> 2, enemyDamage |-> 3,
    enemyHP |-> ehp, enemyTypes |-> types, difficulty2 |-> d2 ]

\* A corridor cell: the player one tile from one enemy.
MapDuel == << << 1, 1, 1, 1, 1 >>,
              << 1, 0, 4, 0, 1 >>,
              << 1, 1, 1, 1, 1 >> >>

\* A room with four enemies around the player, one of them closer.
MapArena == << << 1, 1, 1, 1, 1, 1, 1 >>,
               << 1, 4, 0, 0, 0, 4, 1 >>,
               << 1, 0, 0, 0, 0, 0, 1 >>,
               << 1, 0, 4, 0, 0, 4, 1 >>,
               << 1, 1, 1, 1, 1, 1, 1 >> >>

\* The player between two enemies.
MapPair == << << 1, 1, 1, 1, 1 >>,
              << 1, 4, 0, 4, 1 >>,
              << 1, 1, 1, 1, 1 >> >>

\* A wall between the enemy and the player.
MapWall == << << 1, 1, 1, 1, 1 >>,
              << 1, 4, 1, 0, 1 >>,
              << 1, 1, 1, 1, 1 >> >>

\* A long corridor: the enemy nine tiles from the player, the exit behind.
MapCorridor == << << 1, 1, 1, 1, 1, 1, 1, 1, 1, 1, 1, 1, 1, 1 >>,
                  << 1, 4, 0, 0, 0, 0, 0, 0, 0, 0, 0, 0, 5, 1 >>,
                  << 1, 1, 1, 1, 1, 1, 1, 1, 1, 1, 1, 1, 1, 1 >> >>

\* One key and two locked doors: one between the enemy and the player, one
\* on the player's way.
MapDoors == << << 1, 1, 1, 1, 1, 1, 1, 1, 1, 1 >>,
               << 1, 4, 8, 0, 9, 0, 0, 8, 0, 1 >>,
               << 1, 1, 1, 1, 1, 1, 1, 1, 1, 1 >> >>

\* The same with the second door two tiles further: the first door closes
\* when the enemy is deep inside it.
MapDoorsLong == << << 1, 1, 1, 1, 1, 1, 1, 1, 1, 1, 1, 1 >>,
                   << 1, 4, 8, 0, 9, 0, 0, 0, 0, 8, 0, 1 >>,
                   << 1, 1, 1, 1, 1, 1, 1, 1, 1, 1, 1, 1 >> >>

\* A strip without walls: the edge of the grid is the edge of the floor.
MapOpen == << << 4, 0, 0 >> >>

\* A corridor without enemies: a trap, a heal and two more traps on the
\* player's way.
MapTraps == << << 1, 1, 1, 1, 1, 1, 1 >>,
               << 1, 0, 3, 7, 3, 3, 1 >>,
               << 1, 1, 1, 1, 1, 1, 1 >> >>

Dungeons == <<
  CustomLevel(MapDuel, 1, 1),
  CustomLevel(MapDuel, 3, 1),
  CustomLevel(MapArena, 3, 2),
  GameDungeon(MapPair, 2, 1, << TypePlain >>, 0, 2),
  CustomLevel(MapCorridor, 10, 1),
  GameDungeon(MapDoors, 3, 1, << TypePlain >>, 2, 2),
  GameDungeon(MapDuel, 1, 1, << TypeSword, TypeShortSword >>, 6, 2),
  GameDungeon(MapDuel, 1, 1, << TypeDash >>, 3, 2),
  GameDungeon(MapDuel, 1, 1, << TypeProjectile >>, 2, 2),
  [ GameDungeon(MapPair, 2, 1, << TypePlain >>, 4, 2) EXCEPT !.playerHP = 3 ],
  GameDungeon(MapWall, 3, 1, << TypeDash >>, 8, 2),
  GameDungeon(MapPair, 2, 1, << TypePlain >>, 2, 2),
  GameDungeon(MapDoorsLong, 3, 1, << TypePlain >>, 2, 2),
  GameDungeon(MapPair, 2, 1, << TypePlain >>, 2, 1),
  GameDungeon(MapPair, 2, 1, << TypeProjectile >>, 4, 2),
  GameDungeon(MapPair, 2, 1, << TypeDash >>, 2, 2),
  GameDungeon(MapOpen, 2, 0, << TypePlain >>, 2, 2),
  [ GameDungeon(MapTraps, 1, 1, << TypePlain >>, 2, 2) EXCEPT !.playerHP = 3 ]
>>

DungeonIds == 1 .. Len(Dungeons)

\* Random draws of the Enemy constructor: strafeDir, and preferredDist per
\* style.  The strafe directions considered alternate along the spawn order.
StrafeDirs == { 1, -1 }
StrafeDraws(n) == { [ k \in 1 .. n |-> IF k % 2 = 1 THEN first ELSE -first ] : first \in StrafeDirs }
NoiseDraws(n) == { [ k \in 1 .. n |-> IF k % 2 = 1 THEN 0 ELSE 1 ] }
PreferredMelee == { 70 * SC }
PreferredRanged == { 110 * SC }

\* ------------------------------------------------------------------------
\* Bounds of the model
\* ------------------------------------------------------------------------
MaxVisits == 2
MaxTicks == 115
MidTicks == 54
ShortTicks == 6
RevisitTicks == 2
EventWindow == 3
MaxKeyEvents == 2
MaxSwings == 3
HitWindow == 1
LateWindow == 6
WallTicks == 24
RemovalTicks == 26
OpenTicks == 12

\* The inputs followed in each dungeon: the keys pressed, the number of
\* sword swings, the number of frames, the frames in which events arrive.
Play == <<
  [ keys |-> {}, swings |-> 0, ticks |-> MaxTicks, window |-> EventWindow ],
  [ keys |-> {}, swings |-> MaxSwings, ticks |-> MidTicks, window |-> EventWindow ],
  [ keys |-> { "a" }, swings |-> 0, ticks |-> ShortTicks, window |-> EventWindow ],
  [ keys |-> {}, swings |-> 0, ticks |-> ShortTicks, window |-> EventWindow ],
  [ keys |-> { "d" }, swings |-> 0, ticks |-> MidTicks, window |-> EventWindow ],
  [ keys |-> { "d" }, swings |-> 0, ticks |-> MidTicks, window |-> EventWindow ],
  [ keys |-> {}, swings |-> 0, ticks |-> MaxTicks, window |-> EventWindow ],
  [ keys |-> {}, swings |-> 0, ticks |-> MaxTicks, window |-> EventWindow ],
  [ keys |-> {}, swings |-> 0, ticks |-> ShortTicks, window |-> EventWindow ],
  [ keys |-> {}, swings |-> 0, ticks |-> MidTicks, window |-> EventWindow ],
  [ keys |-> {}, swings |-> 1, ticks |-> WallTicks, window |-> LateWindow ],
  [ keys |-> { "d" }, swings |-> 0, ticks |-> ShortTicks, window |-> EventWindow ],
  [ keys |-> { "d" }, swings |-> 0, ticks |-> MaxTicks, window |-> EventWindow ],
  [ keys |-> {}, swings |-> 1, ticks |-> RemovalTicks, window |-> EventWindow ],
  [ keys |-> {}, swings |-> 0, ticks |-> ShortTicks, window |-> EventWindow ],
  [ keys |-> { "d" }, swings |-> 0, ticks |-> ShortTicks, window |-> EventWindow ],
  [ keys |-> {}, swings |-> 1, ticks |-> OpenTicks, window |-> EventWindow ],
  [ keys |-> { "d" }, swings |-> 0, ticks |-> MaxTicks, window |-> EventWindow ]
>>

\* ------------------------------------------------------------------------
\* State
\* ------------------------------------------------------------------------
VARIABLES
  inDungeon,        \* state.inDungeon
  cur,              \* state.currentDungeon (index into Dungeons, 0 = null)
  hp, maxHp,        \* state.hp, state.maxHp
  hasKey,           \* state.hasKey
  playerX, playerY, \* state.playerX, state.playerY
  velX, velY,       \* state.velX, state.velY
  keysDown,         \* keysDown
  dungeonMap,       \* the working grid
  defMap,           \* dungeon.map of each dungeon definition
  enemies,          \* the live collection: sequence of agent identities
  ag,               \* the Enemy objects of this visit, by identity
  attackTokens,     \* attackTokens
  swordHitEnemies,  \* swordHitEnemies
  swingFrames,      \* swingFrames
  animFrame,        \* a frame is requested
  pc,               \* position inside gameLoop ("idle": no frame running)
  idx,              \* loop index i of updateEnemies (1-based)
  halted,           \* an exception left gameLoop
  visit, tick, nextId, keyEvents, swings,
  last,             \* what the latest Enemy.update call did
  log               \* per-tick and per-agent history

vars == << inDungeon, cur, hp, maxHp, hasKey, playerX, playerY, velX, velY,
           keysDown, dungeonMap, defMap, enemies, ag, attackTokens, swordHitEnemies,
           swingFrames, animFrame, pc, idx, halted, visit, tick, nextId,
           keyEvents, swings, last, log >>

mapRows == Len(dungeonMap)
mapCols == IF Len(dungeonMap) = 0 THEN 0 ELSE Len(dungeonMap[1])

TileAt(m, col, row) == m[row + 1][col + 1]

\* Fault variant: a query outside the grid answers "not solid".
IsSolidOpenEdge(m, key, col, row) ==
  IF row < 0 \/ row >= Len(m) \/ col < 0 \/ col >= Len(m[1]) THEN FALSE
  ELSE LET t == TileAt(m, col, row)
       IN t = T_WALL \/ (t = T_DOOR /\ ~key)

\* isSolid(col, row) on a given grid and key state.
IsSolidIn(m, key, col, row) ==
  IF row < 0 \/ row >= Len(m) \/ col < 0 \/ col >= Len(m[1]) THEN TRUE
  ELSE LET t == TileAt(m, col, row)
       IN t = T_WALL \/ (t = T_DOOR /\ ~key)

isSolid(col, row) == IsSolidIn(dungeonMap, hasKey, col, row)

\* isSolid(Math.floor(x / TILE), Math.floor(y / TILE))
SolidAt(x, y) == isSolid(TileOf(x), TileOf(y))

\* ------------------------------------------------------------------------
\* Enemy construction and dungeon entry
\* ------------------------------------------------------------------------
\* type ? (type.attackStyle || "contact") : "contact"   (type 0 = null)
StyleOf(types, t) ==
  IF t = 0 THEN "contact"
  ELSE IF types[t].attackStyle = "" THEN "contact" ELSE types[t].attackStyle

\* this.type.swordLength || 18
SwordLengthOf(a) == IF a.swordLength = 0 THEN 18 ELSE a.swordLength

\* new Enemy(x, y, hp, damage, type)
Enemy(x, y, hpv, damage, types, t, strafe, pref, noise) ==
  [ x |-> x, y |-> y, hp |-> hpv, maxHp |-> hpv, vx |-> 0, vy |-> 0,
    noiseOffset |-> noise,
    damage |-> damage, attackCooldown |-> 0, hitFlash |-> 0,
    dead |-> FALSE, deathTimer |-> 0,
    spawnX |-> x, spawnY |-> y, strafeDir |-> strafe, distToPlayer |-> 0,
    attackStyle |-> StyleOf(types, t),
    swordLength |-> IF t = 0 THEN 0 ELSE types[t].swordLength,
    preferredDist |-> pref,
    swordAngle |-> 0, swordSwinging |-> FALSE, swordSwingTimer |-> 0,
    swordSwingDir |-> 1,
    dashing |-> FALSE, dashTimer |-> 0, dashDirX |-> 0, dashDirY |-> 0,
    dashHitPlayer |-> FALSE,
    stuckCounter |-> 0, lastX |-> x, lastY |-> y ]

\* The cells of a grid in the scan order of initEnemies (row by row).
Cells(m) ==
  [ k \in 1 .. (Len(m) * Len(m[1])) |->
      << (k - 1) % Len(m[1]), (k - 1) \div Len(m[1]) >> ]

\* The enemy-marker cells, in scan order, as << col, row >>.
MarkerCells(m) == SelectSeq(Cells(m), LAMBDA rc : TileAt(m, rc[1], rc[2]) = T_ENEMY)

\* The grid with every enemy marker cleared.
ClearMarkers(m) ==
  [ r \in 1 .. Len(m) |->
      [ c \in 1 .. Len(m[1]) |-> IF m[r][c] = T_ENEMY THEN T_FLOOR ELSE m[r][c] ] ]

\* state.currentDungeon.enemyHP || 2
EnemyHP(d) == IF d.enemyHP = 0 THEN 2 ELSE d.enemyHP

\* The preferred distances the constructor may draw for a style.
PreferredOf(style) == IF style = "projectile" THEN PreferredRanged ELSE PreferredMelee

\* The type indexes initEnemies may draw (0 = null when the pool is empty).
TypeChoices(d) == IF Len(d.enemyTypes) = 0 THEN { 0 } ELSE 1 .. Len(d.enemyTypes)

EmptyLast ==
  [ id |-> 0, tick |-> 0, wasDead |-> FALSE, removed |-> FALSE,
    hitFlash0 |-> 0, cooldownAtDispatch |-> 0, hasToken |-> FALSE, dist2 |-> 0,
    kbSpeed2 |-> 0, knockMoved |-> FALSE, steered |-> FALSE, steerMoved |-> FALSE,
    dashed |-> FALSE, dashMoved |-> FALSE, dispatched |-> "none", sincePrev |-> 0, damage |-> 0,
    swinging0 |-> FALSE, dashing0 |-> FALSE, ended |-> FALSE,
    swung |-> FALSE, tipCheck |-> FALSE, tipHit |-> FALSE,
    bestI |-> -1, scores |-> << >>,
    x0 |-> 0, y0 |-> 0, x1 |-> 0, y1 |-> 0, x2 |-> 0, y2 |-> 0 ]

\* Fault variant: dungeonMap shares its rows with dungeon.map, so the
\* markers cleared by initEnemies are cleared in the definition too.
DefinitionAliased(m) == ClearMarkers(m)

\* dungeonMap = dungeon.map.map((row) => [...row]): the rows are copied, the
\* definition's map stays as it is.
DefinitionAfterEntry(m) == m

\* enterDungeon(id): the visit's state, with initEnemies.
EnterDungeon(d) ==
  /\ pc = "idle"
  /\ ~inDungeon
  /\ visit < MaxVisits
  /\ LET dg == Dungeons[d]
         cells == MarkerCells(defMap[d])
         n == Len(cells)
     IN \E ts \in [ 1 .. n -> TypeChoices(dg) ], sd \in StrafeDraws(n) :
          \E pf \in [ 1 .. n -> PreferredMelee \cup PreferredRanged ], no \in NoiseDraws(n) :
            /\ \A k \in 1 .. n : pf[k] \in PreferredOf(StyleOf(dg.enemyTypes, ts[k]))
            /\ ag' = [ id \in (nextId + 1) .. (nextId + n) |->
                         LET k == id - nextId
                         IN Enemy(cells[k][1] * TILE * SC + (TILE * SC) \div 2,
                                  cells[k][2] * TILE * SC + (TILE * SC) \div 2,
                                  EnemyHP(dg), dg.enemyDamage, dg.enemyTypes,
                                  ts[k], sd[k], pf[k], no[k]) ]
            /\ enemies' = [ k \in 1 .. n |-> nextId + k ]
            /\ nextId' = nextId + n
            /\ dungeonMap' = ClearMarkers(defMap[d])
            /\ defMap' = [ defMap EXCEPT ![d] = DefinitionAfterEntry(defMap[d]) ]
            /\ cur' = d
            /\ hp' = dg.playerHP
            /\ maxHp' = dg.playerHP
            /\ hasKey' = FALSE
            /\ playerX' = dg.startPixel[1]
            /\ playerY' = dg.startPixel[2]
            /\ velX' = 0
            /\ velY' = 0
            /\ inDungeon' = TRUE
            /\ attackTokens' = {}
            /\ swingFrames' = SWING_DURATION
            /\ swordHitEnemies' = {}
            /\ animFrame' = TRUE
            /\ halted' = FALSE
            /\ visit' = visit + 1
            /\ tick' = 0
            /\ keyEvents' = 0
            /\ swings' = 0
            /\ last' = EmptyLast
            /\ log' = [ defeats |-> [ id \in (nextId + 1) .. (nextId + n) |-> 0 ],
                        dispatchTick |-> [ id \in (nextId + 1) .. (nextId + n) |-> 0 ],
                        damageEvents |-> 0, defeatCalls |-> 0,
                        coordTick |-> 0, coordTokens |-> {}, updated |-> {},
                        prevTokens |-> {}, startLive |-> {}, calls |-> 0, damagers |-> {},
                        swingUpdates |-> [ id \in (nextId + 1) .. (nextId + n) |-> 0 ],
                        tipChecks |-> [ id \in (nextId + 1) .. (nextId + n) |-> 0 ],
                        swingHits |-> [ id \in (nextId + 1) .. (nextId + n) |-> 0 ],
                        swingAim |-> [ id \in (nextId + 1) .. (nextId + n) |-> 0 ],
                        dashPauses |-> [ id \in (nextId + 1) .. (nextId + n) |-> 0 ],
                        dashHp0 |-> [ id \in (nextId + 1) .. (nextId + n) |-> EnemyHP(dg) ],
                        dashSteps |-> [ id \in (nextId + 1) .. (nextId + n) |-> 0 ],
                        dashHits |-> [ id \in (nextId + 1) .. (nextId + n) |-> 0 ],
                        dashDir0 |-> [ id \in (nextId + 1) .. (nextId + n) |-> << 0, 0 >> ] ]
            /\ UNCHANGED << keysDown, pc, idx >>

Init ==
  /\ inDungeon = FALSE
  /\ cur = 0
  /\ hp = 10
  /\ maxHp = 10
  /\ hasKey = FALSE
  /\ playerX = 0
  /\ playerY = 0
  /\ velX = 0
  /\ velY = 0
  /\ keysDown = {}
  /\ dungeonMap = << >>
  /\ defMap = [ d \in DungeonIds |-> Dungeons[d].map ]
  /\ enemies = << >>
  /\ ag = << >>
  /\ attackTokens = {}
  /\ swordHitEnemies = {}
  /\ swingFrames = 70
  /\ animFrame = FALSE
  /\ pc = "idle"
  /\ idx = 0
  /\ halted = FALSE
  /\ visit = 0
  /\ tick = 0
  /\ nextId = 0
  /\ keyEvents = 0
  /\ swings = 0
  /\ last = EmptyLast
  /\ log = [ defeats |-> << >>, dispatchTick |-> << >>, damageEvents |-> 0,
             defeatCalls |-> 0, coordTick |-> 0, coordTokens |-> {}, updated |-> {},
             prevTokens |-> {}, startLive |-> {}, calls |-> 0, damagers |-> {},
             swingUpdates |-> << >>, tipChecks |-> << >>, swingHits |-> << >>,
             swingAim |-> << >>, dashPauses |-> << >>, dashHp0 |-> << >>,
             dashSteps |-> << >>, dashHits |-> << >>, dashDir0 |-> << >> ]

\* ------------------------------------------------------------------------
\* Enemy.update: context-based steering
\* ------------------------------------------------------------------------
\* The siblings a steering loop visits: live collection, not this, not dead.
Others(id) ==
  { enemies[k] : k \in { j \in 1 .. Len(enemies) : enemies[j] # id /\ ~ag[enemies[j]].dead } }

\* The values computed once per update before the direction loop.
SteerCtx(a, id) ==
  LET dx == playerX - a.x
      dy == playerY - a.y
      d2 == dx * dx + dy * dy
      dist == ISqrt(d2)
      toPx == IF dist > 0 THEN Quot(dx * K, dist) ELSE 0
      toPy == IF dist > 0 THEN Quot(dy * K, dist) ELSE 0
      tok == id \in attackTokens
  IN [ dx |-> dx, dy |-> dy, d2 |-> d2, dist |-> dist,
       toPx |-> toPx, toPy |-> toPy,
       perpX |-> -toPy * a.strafeDir, perpY |-> toPx * a.strafeDir,
       hasToken |-> tok,
       inRange |-> d2 < Sq(320),
       idealDist |-> IF tok
                     THEN (IF a.attackStyle = "projectile" THEN 100 * SC ELSE 18 * SC)
                     ELSE a.preferredDist,
       myAngle |-> Atan2(a.y - playerY, a.x - playerX) ]

Dot(i, vx, vy) == Quot(DirX(i) * vx + DirY(i) * vy, K)

\* TOKEN HOLDER: aggressive approach.
InterestToken(i, c, pulse) ==
  LET chaseDot == Dot(i, c.toPx, c.toPy)
      strafeDot == Dot(i, c.perpX, c.perpY)
      chaseW == Max(0, Quot((c.dist - 15 * SC) * K, 200 * SC))
      strafeW == K - Min(K, (c.dist * K) \div (80 * SC))
  IN Mul(Mul(Max(0, chaseDot), chaseW), 700 + Mul(pulse, 300))
     + Mul(Mul(Max(0, strafeDot), strafeW), 500)

\* NO TOKEN: orbit at the preferred distance.
InterestOrbit(i, c) ==
  LET chaseDot == Dot(i, c.toPx, c.toPy)
      strafeDot == Dot(i, c.perpX, c.perpY)
      chase == IF c.dist > c.idealDist
               THEN Mul(Mul(Max(0, chaseDot),
                            Max(0, ((c.dist - c.idealDist) * K) \div (320 * SC - c.idealDist))),
                        600)
               ELSE 0
      retreat == IF c.dist < c.idealDist
                 THEN Mul(Mul(Max(0, -chaseDot), K - (c.dist * K) \div c.idealDist), 500)
                 ELSE 0
      strafeW == K - Min(K, (Abs(c.dist - c.idealDist) * K) \div (120 * SC))
      shaped == Max(0, strafeDot)
      fwdBias == Max(0, Mul(chaseDot, 200) + 800)
  IN chase + retreat + Mul(Mul(Mul(Mul(shaped, shaped), strafeW), 900), fwdBias)

\* SURROUND SPREAD: the siblings at a similar angle around the player, each
\* as its tangent push [tx, ty, w].
SpreadPushes(a, id, c) ==
  IF ~(c.inRange /\ c.d2 > Sq(20)) THEN {}
  ELSE
    { p \in
        { LET o == ag[oid]
              otherAngle == Atan2(o.y - playerY, o.x - playerX)
              raw == c.myAngle - otherAngle
              diff == IF raw > PI THEN raw - TWO_PI
                      ELSE IF raw < -PI THEN raw + TWO_PI ELSE raw
              sign == IF diff >= 0 THEN 1 ELSE -1
          IN [ oid |-> oid,
               far |-> o.distToPlayer > Sq(320),
               diff |-> Abs(diff),
               tx |-> Quot(-(a.y - playerY) * K, c.dist) * sign,
               ty |-> Quot((a.x - playerX) * K, c.dist) * sign ]
          : oid \in Others(id) }
        : ~p.far /\ p.diff < 900 }

\* The sum of the second components of a set of << key, value >> pairs.
RECURSIVE SumPairs(_)
SumPairs(S) ==
  IF S = {} THEN 0
  ELSE LET e == CHOOSE x \in S : TRUE
       IN e[2] + SumPairs(S \ { e })

InterestSpread(i, pushes) ==
  SumPairs({ << p.oid,
                Mul(Mul(Max(0, Dot(i, p.tx, p.ty)), K - (p.diff * K) \div 900), 450) >>
             : p \in pushes })

\* WANDER and HOME BIAS (out of range).  w is the direction of the noise
\* vector (wx, wy) / wLen.
InterestWander(i, a, w) ==
  LET hx == a.spawnX - a.x
      hy == a.spawnY - a.y
      h2 == hx * hx + hy * hy
      homeDist == ISqrt(h2)
      home == IF h2 > Sq(48)
              THEN Mul(Mul(Max(0, Dot(i, Quot(hx * K, homeDist), Quot(hy * K, homeDist))),
                           Min(K, ((homeDist - 48 * SC) * K) \div (96 * SC))),
                       600)
              ELSE 0
  IN Mul(Max(0, Dot(i, DirX(w), DirY(w))), 400) + home

\* SEPARATION: the siblings closer than 40 units, each as [ax, ay, w].
SeparationPushes(a, id) ==
  { p \in
      { LET o == ag[oid]
            sex == a.x - o.x
            sey == a.y - o.y
            s2 == sex * sex + sey * sey
            seDist == ISqrt(s2)
        IN [ oid |-> oid, s2 |-> s2,
             ax |-> IF seDist > 0 THEN Quot(sex * K, seDist) ELSE 0,
             ay |-> IF seDist > 0 THEN Quot(sey * K, seDist) ELSE 0,
             w |-> K - (seDist * K) \div (40 * SC) ]
        : oid \in Others(id) }
      : p.s2 < Sq(40) /\ p.s2 > 0 }

InterestSeparation(i, pushes) ==
  SumPairs({ << p.oid,
                LET awayDot == Dot(i, p.ax, p.ay)
                    perpADot == Abs(Dot(i, -p.ay, p.ax))
                IN Mul(Mul(Max(0, Mul(awayDot, 300) + Mul(perpADot, 700)), p.w), 550) >>
             : p \in pushes })

\* DANGER: wall detection with two probes, 10 and 20 units ahead.
Danger(i, a) ==
  LET near == SolidAt(a.x + Quot(DirX(i) * 10 * SC, K), a.y + Quot(DirY(i) * 10 * SC, K))
      far == SolidAt(a.x + Quot(DirX(i) * 20 * SC, K), a.y + Quot(DirY(i) * 20 * SC, K))
  IN IF near THEN K ELSE IF far THEN 500 ELSE 0

\* ESCAPE PRESSURE when stuck in corners.
InterestEscape(a, danger) ==
  IF a.stuckCounter > 30 /\ danger < 300
  THEN Mul(300, Min(K, ((a.stuckCounter - 30) * K) \div 60))
  ELSE 0

\* interest[] after the direction loop.
Interest(a, id, c, danger, pulse, w) ==
  LET spread == SpreadPushes(a, id, c)
      sep == SeparationPushes(a, id)
      One(i) ==
         (IF c.inRange
          THEN (IF c.hasToken THEN InterestToken(i, c, pulse) ELSE InterestOrbit(i, c))
               + InterestSpread(i, spread)
          ELSE InterestWander(i, a, w))
         + InterestSeparation(i, sep)
         + InterestEscape(a, danger[i + 1])
  IN Array16(One)

\* WALL-SLIDE: blocked interest redistributed to adjacent clear directions.
SlideWeight(offset) == IF offset = 1 THEN 500 ELSE IF offset = 2 THEN 300 ELSE 150

\* What direction i gives away at the given offset (0 when it is not blocked).
Blocked(interest, danger, i, offset) ==
  IF danger[i + 1] >= 500 /\ Mul(interest[i + 1], danger[i + 1]) >= 10
  THEN Mul(Mul(interest[i + 1], danger[i + 1]), SlideWeight(offset))
  ELSE 0

WallSlide(interest, danger) ==
  LET One(j) ==
        interest[j + 1]
        + (IF danger[j + 1] < 500
           THEN SumPairs({ << << o, side >>,
                              Blocked(interest, danger,
                                      (j + side * o + NUM_DIRS) % NUM_DIRS, o) >>
                           : o \in 1 .. 3, side \in { 1, -1 } })
           ELSE 0)
  IN Array16(One)

\* finalScores[i] = interest[i] * (1 - danger[i])
FinalScores(interest, danger) ==
  LET One(i) == Mul(interest[i + 1], K - danger[i + 1])
  IN Array16(One)

\* Pick best direction: the loop keeps the first index whose score is
\* strictly greater than the best so far, starting from bestScore = -1.
RECURSIVE BestFrom(_, _, _, _)
BestFrom(scores, i, bestI, bestScore) ==
  IF i >= NUM_DIRS THEN bestI
  ELSE IF scores[i + 1] > bestScore THEN BestFrom(scores, i + 1, i, scores[i + 1])
  ELSE BestFrom(scores, i + 1, bestI, bestScore)

\* Fault variant: a later direction of equal score replaces the best so far.
RECURSIVE BestFromLast(_, _, _, _)
BestFromLast(scores, i, bestI, bestScore) ==
  IF i >= NUM_DIRS THEN bestI
  ELSE IF scores[i + 1] >= bestScore THEN BestFromLast(scores, i + 1, i, scores[i + 1])
  ELSE BestFromLast(scores, i + 1, bestI, bestScore)

BestDirLast(scores) == BestFromLast(scores, 0, -1, -1)

BestDir(scores) == BestFrom(scores, 0, -1, -1)

\* baseSpd and dashSpeed, in thousandths of a hundredth.
BaseSpd == 45000 + (Dungeons[cur].difficulty2 - 2) * 3750
DashSpeed == 250000 + (Dungeons[cur].difficulty2 - 2) * 15000

\* ------------------------------------------------------------------------
\* Enemy.update: countdowns, knockback, dash, move, dispatch, swing
\* ------------------------------------------------------------------------
\* The part of the game state an update call may write besides the agent:
\* state.hp, state.velX, state.velY, state.inDungeon; dmg counts the calls
\* of _applyDamageToPlayer, fled those of fleeDungeon(true).
PlayerNow ==
  [ hp |-> hp, velX |-> velX, velY |-> velY, inDungeon |-> inDungeon,
    dmg |-> 0, fled |-> 0 ]

\* Fault variant: the damage call without the defeat test.
ApplyDamageNoFlee(P, damage) ==
  [ P EXCEPT !.hp = P.hp - damage, !.dmg = P.dmg + 1 ]

\* _applyDamageToPlayer(state); fleeDungeon(true) clears state.inDungeon.
ApplyDamageToPlayer(P, damage) ==
  [ P EXCEPT !.hp = P.hp - damage,
             !.inDungeon = P.inDungeon /\ (P.hp - damage > 0),
             !.dmg = P.dmg + 1,
             !.fled = IF P.hp - damage <= 0 THEN P.fled + 1 ELSE P.fled ]

\* Fault variant: the countdown that forgets hitFlash.
CountdownSkipsFlash(a) ==
  [ a EXCEPT !.attackCooldown = IF a.attackCooldown > 0 THEN a.attackCooldown - 1
                                ELSE a.attackCooldown ]

\* if (attackCooldown > 0) attackCooldown--; if (hitFlash > 0) hitFlash--;
Countdown(a) ==
  [ a EXCEPT !.attackCooldown = IF a.attackCooldown > 0 THEN a.attackCooldown - 1
                                ELSE a.attackCooldown,
             !.hitFlash = IF a.hitFlash > 0 THEN a.hitFlash - 1 ELSE a.hitFlash ]

\* kbSpeed * kbSpeed
KbSpeed2(a) == a.vx * a.vx + a.vy * a.vy

\* Knockback: move by the velocity unless the destination is solid, then decay.
KnockMoves(a) == KbSpeed2(a) > 10 * 10 /\ ~SolidAt(a.x + a.vx, a.y + a.vy)

Knockback(a) ==
  [ a EXCEPT !.x = IF KnockMoves(a) THEN a.x + a.vx ELSE a.x,
             !.y = IF KnockMoves(a) THEN a.y + a.vy ELSE a.y,
             !.vx = Quot(a.vx * 78, 100),
             !.vy = Quot(a.vy * 78, 100) ]

\* Fault variant: the early return that forgets the hit-stun.
SkipsSteeringFastOnly(a) == KbSpeed2(a) > 150 * 150

\* if (this.hitFlash > 0 || kbSpeed > 1.5) return false;
\* a: after the countdowns, with the velocity the knockback step started from.
SkipsSteering(a) == a.hitFlash > 0 \/ KbSpeed2(a) > 150 * 150

\* The sword-swing advance shared by the dash branch and the steering branch.
SwingAdvance(a) ==
  [ a EXCEPT !.swordSwingTimer = a.swordSwingTimer - 1,
             !.swordAngle = a.swordAngle + a.swordSwingDir * 209 ]

SwingEnd(a) ==
  [ a EXCEPT !.swordSwinging = IF a.swordSwingTimer <= 0 THEN FALSE ELSE a.swordSwinging ]

\* Fault variant: a blocked dash that keeps its timer.
DashBlockedKeepsTimer(a) == [ a EXCEPT !.dashing = FALSE ]

\* The dash step that would land on a solid tile: the dash ends, the
\* position is kept.
DashBlocked(a) == [ a EXCEPT !.dashing = FALSE, !.dashTimer = 0 ]

\* Fault variant: a dash whose timer running out ends nothing.
DashTimeoutNever(a) == a

\* if (this.dashTimer <= 0) { dashing = false; _dashHitPlayer = false; }
DashTimeout(a) ==
  IF a.dashTimer <= 0
  THEN [ a EXCEPT !.dashing = FALSE, !.dashHitPlayer = FALSE ]
  ELSE a

\* The dash branch: [a, P, moved].
DashBranch(a) ==
  LET End(a2) ==
        LET a3 == DashTimeout(a2)
        IN IF a3.swordSwinging THEN SwingEnd(SwingAdvance(a3)) ELSE a3
      Hit(a1, blocked, dxP, dyP, distP, hit) ==
        LET P1 == IF hit THEN ApplyDamageToPlayer(PlayerNow, a.damage) ELSE PlayerNow
        IN [ a |-> End(IF hit THEN [ a1 EXCEPT !.dashHitPlayer = TRUE ] ELSE a1),
             P |-> IF hit /\ distP > 0
                   THEN [ P1 EXCEPT !.velX = P1.velX + Quot(dxP * 300, distP),
                                    !.velY = P1.velY + Quot(dyP * 300, distP) ]
                   ELSE P1,
             moved |-> ~blocked ]
      Near(a1, blocked, dP2) ==
        Hit(a1, blocked, playerX - a1.x, playerY - a1.y, ISqrt(dP2),
            a1.dashing /\ ~a1.dashHitPlayer /\ dP2 < Sq(16))
      Step(nx, ny, blocked) ==
        LET a1 == IF blocked
                  THEN DashBlocked(a)
                  ELSE [ a EXCEPT !.dashTimer = a.dashTimer - 1, !.x = nx, !.y = ny ]
        IN Near(a1, blocked, Dist2(playerX, playerY, a1.x, a1.y))
      To(nx, ny) == Step(nx, ny, SolidAt(nx, ny))
  IN To(a.x + Quot(a.dashDirX * DashSpeed, K * K),
        a.y + Quot(a.dashDirY * DashSpeed, K * K))

\* Steering: scores, best direction, move, stuck detection: [a, moved].
SteerBranch(a, id, c, pulse, w) ==
  LET DangerOf(i) == Danger(i, a)
      Move(scores, bestI, spd) ==
        LET mx == a.x + (IF bestI >= 0 THEN Quot(DirX(bestI) * spd, K * K) ELSE 0)
            my == a.y + (IF bestI >= 0 THEN Quot(DirY(bestI) * spd, K * K) ELSE 0)
            moves == bestI >= 0 /\ scores[bestI + 1] > 10 /\ ~SolidAt(mx, my)
            x1 == IF moves THEN mx ELSE a.x
            y1 == IF moves THEN my ELSE a.y
            movedDist == Abs(x1 - a.lastX) + Abs(y1 - a.lastY)
        IN [ a |-> [ a EXCEPT !.x = x1, !.y = y1,
                              !.stuckCounter = IF movedDist < 15 /\ c.inRange
                                               THEN a.stuckCounter + 1
                                               ELSE Max(0, a.stuckCounter - 2),
                              !.lastX = x1, !.lastY = y1 ],
             moved |-> moves /\ (mx # a.x \/ my # a.y),
             bestI |-> bestI, scores |-> scores ]
      spdMod == IF c.inRange THEN (IF c.hasToken THEN 1000 ELSE 750) ELSE 500
      Pick(scores) == Move(scores, BestDir(scores), Quot(BaseSpd * spdMod, K))
      Score(danger) ==
        Pick(FinalScores(WallSlide(Interest(a, id, c, danger, pulse, w), danger), danger))
  IN Score(Array16(DangerOf))

\* Fault variant: contact damage re-arms one tick early.
CooldownShort(style) ==
  IF style = "contact" THEN 59
  ELSE IF style = "sword" THEN 70
  ELSE 90

\* The attack cooldown each style sets on dispatch.
CooldownOf(style) ==
  IF style = "contact" THEN 60
  ELSE IF style = "sword" THEN 70
  ELSE 90

\* _doContactDamage(toPx, toPy, state)
DoContactDamage(a, c, P) ==
  LET P1 == ApplyDamageToPlayer(P, a.damage)
  IN [ a |-> [ a EXCEPT !.attackCooldown = CooldownOf("contact") ],
       P |-> IF c.dist > 0
             THEN [ P1 EXCEPT !.velX = P1.velX - Quot(c.toPx * 250, K),
                              !.velY = P1.velY - Quot(c.toPy * 250, K) ]
             ELSE P1 ]

\* _startSwordSwing(toPx, toPy); sdir is the random swing direction.
StartSwordSwing(a, c, sdir) ==
  [ a EXCEPT !.swordSwinging = TRUE, !.swordSwingTimer = 20,
             !.swordAngle = Atan2(c.toPy, c.toPx) - 1047,
             !.swordSwingDir = sdir,
             !.attackCooldown = CooldownOf("sword") ]

\* Fault variant: a dash armed for one step more.
StartDashLong(a, c) ==
  [ a EXCEPT !.dashing = TRUE, !.dashTimer = 16,
             !.dashDirX = c.toPx, !.dashDirY = c.toPy,
             !.dashHitPlayer = FALSE,
             !.attackCooldown = 90 ]

\* _startDash(toPx, toPy)
StartDash(a, c) ==
  [ a EXCEPT !.dashing = TRUE, !.dashTimer = 15,
             !.dashDirX = c.toPx, !.dashDirY = c.toPy,
             !.dashHitPlayer = FALSE,
             !.attackCooldown = CooldownOf("dash") ]

\* Fault variant: a dispatch that does not wait for the cooldown.
DispatchStyleNoCooldown(a, c) ==
  IF ~c.hasToken THEN "none"
  ELSE IF a.attackStyle = "sword" /\ c.d2 < Sq(28) /\ ~a.swordSwinging THEN "sword"
  ELSE IF a.attackStyle = "dash" /\ c.d2 < Sq(80) /\ c.d2 > Sq(20) /\ ~a.dashing THEN "dash"
  ELSE IF a.attackStyle = "projectile" /\ c.d2 < Sq(150) /\ c.d2 > Sq(30) THEN "projectile"
  ELSE IF a.attackStyle = "contact" /\ c.d2 < Sq(18) THEN "contact"
  ELSE "none"

\* The style whose branch of the attack dispatch is taken ("none": no branch).
\* c holds hasToken and the distance computed before the move.
DispatchStyle(a, c) ==
  IF ~(c.hasToken /\ a.attackCooldown <= 0) THEN "none"
  ELSE IF a.attackStyle = "sword" /\ c.d2 < Sq(28) /\ ~a.swordSwinging THEN "sword"
  ELSE IF a.attackStyle = "dash" /\ c.d2 < Sq(80) /\ c.d2 > Sq(20) /\ ~a.dashing THEN "dash"
  ELSE IF a.attackStyle = "projectile" /\ c.d2 < Sq(150) /\ c.d2 > Sq(30) THEN "projectile"
  ELSE IF a.attackStyle = "contact" /\ c.d2 < Sq(18) THEN "contact"
  ELSE "none"

\* Attack dispatch: [a, P, style, threw].  _fireProjectile pushes to
\* _g.enemyProjectiles, which the game reference does not define: the call
\* throws before attackCooldown is set.
Dispatch(a, c, P, sdir) ==
  LET style == DispatchStyle(a, c)
  IN IF style = "sword"
     THEN [ a |-> StartSwordSwing(a, c, sdir), P |-> P, style |-> style, threw |-> FALSE ]
     ELSE IF style = "dash"
     THEN [ a |-> StartDash(a, c), P |-> P, style |-> style, threw |-> FALSE ]
     ELSE IF style = "projectile"
     THEN [ a |-> a, P |-> P, style |-> style, threw |-> TRUE ]
     ELSE IF style = "contact"
     THEN [ a |-> DoContactDamage(a, c, P).a, P |-> DoContactDamage(a, c, P).P,
            style |-> style, threw |-> FALSE ]
     ELSE [ a |-> a, P |-> P, style |-> style, threw |-> FALSE ]

\* Fault variant: the damage check repeated through the second half of the swing.
TipCheckSecondHalf(a) == a.swordSwingTimer <= 10

\* if (this.swordSwingTimer === 10): the update call that checks the blade tip.
TipCheckAt(a) == a.swordSwingTimer = 10

\* Update sword swing, with the damage check at swordSwingTimer === 10:
\* [a, P, swung, checked, hit].
SwingUpdate(a, P) ==
  IF ~a.swordSwinging
  THEN [ a |-> a, P |-> P, swung |-> FALSE, checked |-> FALSE, hit |-> FALSE ]
  ELSE LET a1 == SwingAdvance(a)
           tipX == a1.x + Quot(Cos(a1.swordAngle) * SwordLengthOf(a1) * SC, K)
           tipY == a1.y + Quot(Sin(a1.swordAngle) * SwordLengthOf(a1) * SC, K)
           hit == TipCheckAt(a1) /\ Dist2(playerX, playerY, tipX, tipY) < Sq(16)
       IN [ a |-> SwingEnd(a1),
            P |-> IF hit THEN ApplyDamageToPlayer(P, a1.damage) ELSE P,
            swung |-> TRUE, checked |-> TipCheckAt(a1), hit |-> hit ]

\* The engagement pulse 0.5 + 0.5 * sin(t * 0.8 + noiseOffset * 0.5) and the
\* direction of the wander vector (smoothNoise(t * 0.5, noiseOffset), ...),
\* with the clock t held over the frames followed: one value per noiseOffset.
EngagePulse(a) == IF a.noiseOffset = 0 THEN 0 ELSE K
WanderDir(a) == IF a.noiseOffset = 0 THEN 0 ELSE NUM_DIRS \div 2

\* The random direction of a sword swing.
SwingDirs == { 1, -1 }

\* update() of a live agent: [a, P, threw, tr].
UpdateAlive(a, id, sdir) ==
  LET Dashed(tr0, d) ==
        [ a |-> d.a, P |-> d.P, threw |-> FALSE,
          tr |-> [ tr0 EXCEPT !.dashed = TRUE, !.dashMoved = d.moved, !.damage = d.P.dmg,
                              !.x2 = d.a.x, !.y2 = d.a.y ] ]
      Swung(tr1, dp, sw) ==
        IF dp.threw
        THEN [ a |-> dp.a, P |-> dp.P, threw |-> TRUE, tr |-> tr1 ]
        ELSE [ a |-> sw.a, P |-> sw.P, threw |-> FALSE,
               tr |-> [ tr1 EXCEPT !.damage = sw.P.dmg, !.swung = sw.swung,
                                   !.tipCheck = sw.checked, !.tipHit = sw.hit ] ]
      Dispatched(tr0, c, st, dp, prev) ==
        Swung([ tr0 EXCEPT !.steered = TRUE, !.steerMoved = st.moved,
                           !.bestI = st.bestI, !.scores = st.scores,
                           !.dist2 = c.d2,
                           !.cooldownAtDispatch = st.a.attackCooldown,
                           !.swinging0 = st.a.swordSwinging,
                           !.dashing0 = st.a.dashing,
                           !.dispatched = dp.style,
                           !.sincePrev = IF prev = 0 THEN 0 ELSE tick - prev,
                           !.x2 = st.a.x, !.y2 = st.a.y ],
              dp, SwingUpdate(dp.a, dp.P))
      Steered(tr0, c, st) ==
        Dispatched(tr0, c, st, Dispatch(st.a, c, PlayerNow, sdir), log.dispatchTick[id])
      Aimed(a2, tr0, c) ==
        Steered(tr0, c, SteerBranch(a2, id, c, EngagePulse(a2), WanderDir(a2)))
      Moved(a1, a2, tr0) ==
        IF SkipsSteering(a1)
        THEN [ a |-> a2, P |-> PlayerNow, threw |-> FALSE, tr |-> tr0 ]
        ELSE IF a2.dashing
        THEN Dashed(tr0, DashBranch(a2))
        ELSE Aimed(a2, tr0, SteerCtx(a2, id))
      Knocked(a1, a2) ==
        Moved(a1, a2,
              [ EmptyLast EXCEPT !.id = id, !.tick = tick, !.hitFlash0 = a.hitFlash,
                                 !.kbSpeed2 = KbSpeed2(a1),
                                 !.knockMoved = KnockMoves(a1),
                                 !.x0 = a.x, !.y0 = a.y, !.x1 = a2.x, !.y1 = a2.y,
                                 !.x2 = a2.x, !.y2 = a2.y,
                                 !.hasToken = id \in attackTokens ])
      Counted(a1) == Knocked(a1, Knockback(a1))
  IN Counted(Countdown(a))

\* The swing directions this update call may draw (one value when it starts
\* no swing).
ReachesSteering(a) == ~SkipsSteering(Countdown(a)) /\ ~a.dashing

SwingChoices(a, id) ==
  IF ReachesSteering(a) /\ DispatchStyle(Countdown(a), SteerCtx(Knockback(Countdown(a)), id)) = "sword"
  THEN SwingDirs ELSE { 1 }

\* Fault variant: the removal takes the head of the collection.
SpliceFirst(seq, i) == [ k \in 1 .. (Len(seq) - 1) |-> seq[k + 1] ]

\* Removal of position i (1-based) from the live collection: splice(i, 1).
Splice(seq, i) == [ k \in 1 .. (Len(seq) - 1) |-> IF k < i THEN seq[k] ELSE seq[k + 1] ]

\* Fault variant: the removal comes one update late.
DeathStepLate(a) ==
  [ a |-> [ a EXCEPT !.deathTimer = a.deathTimer - 1 ],
    remove |-> a.deathTimer - 1 < 0 ]

\* update() of a dead agent: if (this.dead) { this.deathTimer--;
\* return this.deathTimer <= 0; }
DeathStep(a) ==
  [ a |-> [ a EXCEPT !.deathTimer = a.deathTimer - 1 ],
    remove |-> a.deathTimer - 1 <= 0 ]

\* The members of the live collection.
Live == { enemies[k] : k \in 1 .. Len(enemies) }

\* Fault variant: the pass goes on after the player's defeat.
PassIgnoresDefeat(r) == r.threw

\* Whether the pass stops after this update call: an exception left the
\* frame, or if (!state.inDungeon) return.
PassEnds(r) == r.threw \/ ~r.P.inDungeon

\* One iteration of the updateEnemies loop: enemies[i].update(), the splice,
\* and the inDungeon check that ends the pass (and the frame).
EnemyUpdate ==
  /\ pc = "update"
  /\ LET id == enemies[idx]
         a == ag[id]
     IN IF a.dead
        THEN /\ ag' = [ ag EXCEPT ![id] = DeathStep(a).a ]
             /\ enemies' = IF DeathStep(a).remove THEN Splice(enemies, idx) ELSE enemies
             /\ last' = [ EmptyLast EXCEPT !.id = id, !.tick = tick, !.wasDead = TRUE,
                                           !.removed = DeathStep(a).remove,
                                           !.hitFlash0 = a.hitFlash,
                                           !.x0 = a.x, !.y0 = a.y, !.x1 = a.x, !.y1 = a.y,
                                           !.x2 = a.x, !.y2 = a.y ]
             /\ idx' = idx - 1
             /\ pc' = IF idx - 1 = 0 THEN "hits" ELSE "update"
             /\ log' = [ log EXCEPT !.updated = @ \cup { id }, !.calls = @ + 1 ]
             /\ UNCHANGED << inDungeon, hp, velX, velY, animFrame, halted >>
        ELSE \E sdir \in SwingChoices(a, id) :
               \E r \in { UpdateAlive(a, id, sdir) } :
                  /\ ag' = [ ag EXCEPT ![id] = r.a ]
                  /\ enemies' = enemies
                  /\ last' = [ r.tr EXCEPT !.ended = PassEnds(r) ]
                  /\ hp' = r.P.hp
                  /\ velX' = r.P.velX
                  /\ velY' = r.P.velY
                  /\ inDungeon' = r.P.inDungeon
                  /\ log' = [ log EXCEPT !.updated = @ \cup { id },
                                         !.calls = @ + 1,
                                         !.damagers = IF r.P.dmg > 0 THEN @ \cup { id } ELSE @,
                                         !.damageEvents = @ + r.P.dmg,
                                         !.defeatCalls = @ + r.P.fled,
                                         !.swingUpdates[id] =
                                            (IF r.tr.dispatched = "sword" THEN 0 ELSE @)
                                            + (IF r.tr.swung THEN 1 ELSE 0),
                                         !.tipChecks[id] =
                                            (IF r.tr.dispatched = "sword" THEN 0 ELSE @)
                                            + (IF r.tr.tipCheck THEN 1 ELSE 0),
                                         !.swingHits[id] =
                                            (IF r.tr.dispatched = "sword" THEN 0 ELSE @)
                                            + (IF r.tr.tipHit THEN 1 ELSE 0),
                                         !.swingAim[id] =
                                            IF r.tr.dispatched = "sword"
                                            THEN Atan2(playerY - r.tr.y1, playerX - r.tr.x1)
                                            ELSE @,
                                         !.dashPauses[id] =
                                            IF r.tr.dispatched = "dash" THEN 0
                                            ELSE @ + (IF a.dashing /\ ~r.tr.dashed
                                                      THEN 1 ELSE 0),
                                         !.dashHp0[id] =
                                            IF r.tr.dispatched = "dash" THEN r.a.hp ELSE @,
                                         !.dashSteps[id] =
                                            IF r.tr.dispatched = "dash" THEN 0
                                            ELSE @ + (IF r.tr.dashMoved THEN 1 ELSE 0),
                                         !.dashHits[id] =
                                            IF r.tr.dispatched = "dash" THEN 0
                                            ELSE @ + (IF r.tr.dashed THEN r.tr.damage ELSE 0),
                                         !.dashDir0[id] =
                                            IF r.tr.dispatched = "dash"
                                            THEN << r.a.dashDirX, r.a.dashDirY >> ELSE @,
                                         !.dispatchTick[id] =
                                            IF r.tr.dispatched # "none" THEN tick ELSE @ ]
                  /\ halted' = r.threw
                  /\ IF PassEnds(r)
                     THEN /\ pc' = "idle"
                          /\ animFrame' = FALSE
                          /\ idx' = idx
                     ELSE /\ idx' = idx - 1
                          /\ pc' = IF idx - 1 = 0 THEN "hits" ELSE "update"
                          /\ animFrame' = animFrame
  /\ UNCHANGED << cur, maxHp, hasKey, playerX, playerY, keysDown, dungeonMap, defMap,
                  attackTokens, swordHitEnemies, swingFrames, visit, tick, nextId,
                  keyEvents, swings >>

\* ------------------------------------------------------------------------
\* The coordinator
\* ------------------------------------------------------------------------
\* Insertion of e into a sequence sorted by distance, after its equals.
RECURSIVE InsertByDist(_, _, _)
InsertByDist(sorted, e, dist) ==
  IF sorted = << >> THEN << e >>
  ELSE IF dist[e] < dist[Head(sorted)] THEN << e >> \o sorted
  ELSE << Head(sorted) >> \o InsertByDist(Tail(sorted), e, dist)

\* Fault variant: no sort.
Unsorted(seq, dist) == seq

\* alive.sort((a, b) => a._distToPlayer - b._distToPlayer), a stable sort.
RECURSIVE SortByDist(_, _)
SortByDist(seq, dist) ==
  IF seq = << >> THEN << >>
  ELSE InsertByDist(SortByDist(SubSeq(seq, 1, Len(seq) - 1), dist), seq[Len(seq)], dist)

\* Fault variant: one token more than the cap.
MaxTokensPlusOne == Min(2, CeilHalf(Dungeons[cur].difficulty2)) + 1

\* Math.min(2, Math.ceil(state.currentDungeon.difficulty))
MaxTokens == Min(2, CeilHalf(Dungeons[cur].difficulty2))

\* e._distToPlayer as the coordinator computes it (kept squared).
DistToPlayer(a) == Dist2(a.x, a.y, playerX, playerY)

\* Fault variants: no range test; no dead test.
AliveAnyRange == SelectSeq(enemies, LAMBDA e : ~ag[e].dead)
AliveOrDead == SelectSeq(enemies, LAMBDA e : DistToPlayer(ag[e]) < Sq(320))

\* The alive[] array of updateEnemyCoordination, before the sort.
AliveInRange ==
  SelectSeq(enemies, LAMBDA e : ~ag[e].dead /\ DistToPlayer(ag[e]) < Sq(320))

\* The tokens granted: the first min(maxTokens, alive.length) of the sorted array.
GrantedTokens ==
  LET sorted == SortByDist(AliveInRange, [ e \in DOMAIN ag |-> DistToPlayer(ag[e]) ])
      n == Min(MaxTokens, Len(sorted))
  IN { sorted[k] : k \in 1 .. n }

\* Fault variant: the set is cleared only when somebody is eligible.
CoordinatorPassStale(prev) == IF GrantedTokens = {} THEN prev ELSE GrantedTokens

\* Fault variant: the pass adds to the set it finds.
CoordinatorPassKeeps(prev) == prev \cup GrantedTokens

\* attackTokens.clear() on the set the pass finds, then the add loop.
CoordinatorPass(prev) == (prev \ prev) \cup GrantedTokens

\* updateEnemyCoordination(), then the updateEnemies loop starts at the end.
UpdateEnemyCoordination ==
  /\ pc = "coord"
  /\ attackTokens' = CoordinatorPass(attackTokens)
  /\ ag' = [ e \in DOMAIN ag |->
               IF e \in Live /\ ~ag[e].dead
               THEN [ ag[e] EXCEPT !.distToPlayer = DistToPlayer(ag[e]) ]
               ELSE ag[e] ]
  /\ idx' = Len(enemies)
  /\ pc' = IF Len(enemies) = 0 THEN "hits" ELSE "update"
  /\ log' = [ log EXCEPT !.coordTick = tick, !.coordTokens = attackTokens',
                         !.prevTokens = attackTokens,
                         !.startLive = Live, !.calls = 0 ]
  /\ UNCHANGED << inDungeon, cur, hp, maxHp, hasKey, playerX, playerY, velX, velY,
                  keysDown, dungeonMap, defMap, enemies, swordHitEnemies, swingFrames,
                  animFrame, halted, visit, tick, nextId, keyEvents, swings, last >>

\* ------------------------------------------------------------------------
\* The player's sword and Enemy.takeHit
\* ------------------------------------------------------------------------
\* takeHit(): hp, hit-stun, knockback away from the player, death.
TakeHit(a) ==
  LET dx == a.x - playerX
      dy == a.y - playerY
      d0 == ISqrt(dx * dx + dy * dy)
      d == IF d0 = 0 THEN 1 ELSE d0
      dies == a.hp - 1 <= 0
  IN [ a EXCEPT !.hp = a.hp - 1,
                !.hitFlash = 8,
                !.vx = a.vx + Quot(dx * 5 * SC, d),
                !.vy = a.vy + Quot(dy * 5 * SC, d),
                !.dead = IF dies THEN TRUE ELSE a.dead,
                !.deathTimer = IF dies THEN 20 ELSE a.deathTimer ]

\* How far from the player the blade segment can be touched: the blade base
\* is two arm lengths away at most, the tip a blade length further, and a hit
\* needs a distance to the segment below 14.
SwordReach == 2 * SWORD_ARM_LENGTH + SWORD_BLADE_LENGTH + 14

\* Fault variant: the loop of checkSwordHits without the dead test.
HittableDead ==
  { e \in Live : e \notin swordHitEnemies /\ DistToPlayer(ag[e]) < Sq(SwordReach) }

\* The enemies the loop of checkSwordHits can hit: in the live collection,
\* not dead, not yet hit by this swing, and where a blade can be.
Hittable ==
  { e \in Live :
      /\ ~ag[e].dead
      /\ e \notin swordHitEnemies
      /\ DistToPlayer(ag[e]) < Sq(SwordReach) }

\* checkSwordHits(); the blade position (mouse, swing velocity) is an input:
\* H is the set of enemies closer than 14 to the blade segment.
CheckSwordHits ==
  /\ pc = "hits"
  /\ \E H \in SUBSET Hittable :
       /\ (swingFrames < SWING_DURATION /\ swingFrames <= HitWindow) \/ H = {}
       /\ swordHitEnemies' = swordHitEnemies \cup H
       /\ ag' = [ e \in DOMAIN ag |-> IF e \in H THEN TakeHit(ag[e]) ELSE ag[e] ]
       /\ log' = [ log EXCEPT !.defeats =
                     [ e \in DOMAIN log.defeats |->
                         IF e \in H /\ TakeHit(ag[e]).dead THEN log.defeats[e] + 1
                         ELSE log.defeats[e] ] ]
  /\ pc' = "tiles"
  /\ UNCHANGED << inDungeon, cur, hp, maxHp, hasKey, playerX, playerY, velX, velY,
                  keysDown, dungeonMap, defMap, enemies, attackTokens, swingFrames, animFrame,
                  idx, halted, visit, tick, nextId, keyEvents, swings, last >>

\* ------------------------------------------------------------------------
\* gameLoop: the player's part of a frame
\* ------------------------------------------------------------------------
KeyW == "w"
KeyA == "a"
KeyS == "s"
KeyD == "d"
Keys == { KeyW, KeyA, KeyS, KeyD }

\* Input -> acceleration, with the diagonal normalised by 1 / SQRT2.
InputX == IF KeyD \in keysDown THEN 1 ELSE IF KeyA \in keysDown THEN -1 ELSE 0
InputY == IF KeyS \in keysDown THEN 1 ELSE IF KeyW \in keysDown THEN -1 ELSE 0
AccelOf(in, other) == IF in # 0 /\ other # 0 THEN Quot(in * ACCEL * 707, K) ELSE in * ACCEL

\* The velocity after acceleration, clamp to MAX_SPEED, friction and dead zone.
ClampSpeed(v, speed) == IF speed > MAX_SPEED THEN Quot(v * MAX_SPEED, speed) ELSE v
DeadZone(v) == IF Abs(v) < 8 THEN 0 ELSE v

NextVel ==
  LET ax == velX + AccelOf(InputX, InputY)
      ay == velY + AccelOf(InputY, InputX)
      speed == ISqrt(ax * ax + ay * ay)
  IN << DeadZone(Quot(ClampSpeed(ax, speed) * FRICTION, 100)),
        DeadZone(Quot(ClampSpeed(ay, speed) * FRICTION, 100)) >>

\* tryMove(dx, dy) from (px, py): whether the four corners are free.
CanMove(px, py, dx, dy) ==
  LET hs == (PLAYER_SIZE * SC) \div 2
      left == px + dx - hs
      right == px + dx + hs - SC
      top == py + dy - hs
      bottom == py + dy + hs - SC
  IN /\ ~SolidAt(left, top)
     /\ ~SolidAt(right, top)
     /\ ~SolidAt(left, bottom)
     /\ ~SolidAt(right, bottom)

\* Movement with wall-sliding: [x, y, vx, vy].
PlayerMove ==
  LET dx == NextVel[1]
      dy == NextVel[2]
  IN IF dx = 0 /\ dy = 0 THEN [ x |-> playerX, y |-> playerY, vx |-> dx, vy |-> dy ]
     ELSE IF CanMove(playerX, playerY, dx, dy)
     THEN [ x |-> playerX + dx, y |-> playerY + dy, vx |-> dx, vy |-> dy ]
     ELSE LET mx == dx # 0 /\ CanMove(playerX, playerY, dx, 0)
              x1 == IF mx THEN playerX + dx ELSE playerX
              vy1 == IF mx THEN Quot(dy * 3, 10) ELSE dy
              my == dy # 0 /\ CanMove(x1, playerY, 0, dy)
              y1 == IF my THEN playerY + dy ELSE playerY
              vx1 == IF my THEN Quot(dx * 3, 10) ELSE dx
          IN IF mx \/ my
             THEN [ x |-> x1, y |-> y1, vx |-> vx1, vy |-> vy1 ]
             ELSE [ x |-> x1, y |-> y1, vx |-> Quot(vx1 * 2, 10), vy |-> Quot(vy1 * 2, 10) ]

\* Fault variant: the sword hit checks come before updateEnemies.
AfterMovementHits == "hits"

\* What gameLoop runs after the player's movement: updateEnemies(), which
\* starts with the coordinator pass.
AfterMovement == "coord"

\* The start of gameLoop: input, player movement and updateSword.
\* The number of frames followed in the current visit.
Horizon == IF visit = 1 THEN Play[cur].ticks ELSE RevisitTicks

GameLoop ==
  /\ pc = "idle"
  /\ animFrame
  /\ inDungeon
  /\ tick < Horizon
  /\ \E m \in { PlayerMove } :
       /\ playerX' = m.x
       /\ playerY' = m.y
       /\ velX' = m.vx
       /\ velY' = m.vy
  /\ swingFrames' = IF swingFrames # SWING_DURATION THEN swingFrames + 1 ELSE swingFrames
  /\ tick' = tick + 1
  /\ log' = [ log EXCEPT !.damageEvents = 0, !.updated = {}, !.damagers = {} ]
  /\ pc' = AfterMovement
  /\ UNCHANGED << inDungeon, cur, hp, maxHp, hasKey, keysDown, dungeonMap, defMap, enemies, ag,
                  attackTokens, swordHitEnemies, animFrame, idx, halted, visit, nextId,
                  keyEvents, swings, last >>

\* ------------------------------------------------------------------------
\* gameLoop: tile interactions and the end of the frame
\* ------------------------------------------------------------------------
SetTile(m, col, row, t) == [ m EXCEPT ![row + 1][col + 1] = t ]

\* Fault variant: a heal tile that always adds 4.
HealFlat(h, mh) == 4

\* case 7: heal = Math.min(4, state.maxHp - state.hp).
HealAmount(h, mh) == Min(4, mh - h)

\* checkTileInteractions(), then the rest of the frame and the next request.
CheckTileInteractions ==
  /\ pc = "tiles"
  /\ LET col == TileOf(playerX)
         row == TileOf(playerY)
         inside == row >= 0 /\ row < mapRows /\ col >= 0 /\ col < mapCols
         tile == IF inside THEN TileAt(dungeonMap, col, row) ELSE T_WALL
         cleared == SetTile(dungeonMap, col, row, T_FLOOR)
     IN /\ dungeonMap' = IF tile \in { T_LOOT, T_TRAP, T_GOLD, T_HEAL, T_KEY }
                            \/ (tile = T_DOOR /\ hasKey)
                         THEN cleared ELSE dungeonMap
        /\ hp' = IF tile = T_TRAP THEN hp - Dungeons[cur].trapDamage
                 ELSE IF tile = T_HEAL THEN hp + HealAmount(hp, maxHp)
                 ELSE hp
        /\ hasKey' = IF tile = T_KEY THEN TRUE
                     ELSE IF tile = T_DOOR THEN FALSE
                     ELSE hasKey
        /\ inDungeon' = ~( tile = T_EXIT \/ (tile = T_TRAP /\ hp' <= 0) )
  /\ animFrame' = inDungeon'
  /\ pc' = "idle"
  /\ UNCHANGED << cur, maxHp, playerX, playerY, velX, velY, keysDown, defMap, enemies,
                  ag, attackTokens, swordHitEnemies, swingFrames, idx, halted, visit,
                  tick, nextId, keyEvents, swings, last, log >>

\* ------------------------------------------------------------------------
\* Input events (between frames)
\* ------------------------------------------------------------------------
Window == IF visit = 1 THEN Play[cur].window ELSE EventWindow

EventsOpen == pc = "idle" /\ tick < Window /\ tick < Horizon

\* keydown
KeyDown(k) ==
  /\ EventsOpen
  /\ inDungeon
  /\ k \in Play[cur].keys
  /\ k \notin keysDown
  /\ keyEvents < MaxKeyEvents
  /\ keysDown' = keysDown \cup { k }
  /\ keyEvents' = keyEvents + 1
  /\ UNCHANGED << inDungeon, cur, hp, maxHp, hasKey, playerX, playerY, velX, velY,
                  dungeonMap, defMap, enemies, ag, attackTokens, swordHitEnemies, swingFrames,
                  animFrame, pc, idx, halted, visit, tick, nextId, swings, last, log >>

\* keyup
KeyUp(k) ==
  /\ EventsOpen
  /\ k \in keysDown
  /\ keyEvents < MaxKeyEvents
  /\ keysDown' = keysDown \ { k }
  /\ keyEvents' = keyEvents + 1
  /\ UNCHANGED << inDungeon, cur, hp, maxHp, hasKey, playerX, playerY, velX, velY,
                  dungeonMap, defMap, enemies, ag, attackTokens, swordHitEnemies, swingFrames,
                  animFrame, pc, idx, halted, visit, tick, nextId, swings, last, log >>

\* swingSword(), from the space key or a mouse button while in the dungeon.
SwingSword ==
  /\ EventsOpen
  /\ inDungeon
  /\ swings < Play[cur].swings
  /\ swingFrames' = 0
  /\ swordHitEnemies' = {}
  /\ swings' = swings + 1
  /\ UNCHANGED << inDungeon, cur, hp, maxHp, hasKey, playerX, playerY, velX, velY,
                  keysDown, dungeonMap, defMap, enemies, ag, attackTokens, animFrame, pc, idx,
                  halted, visit, tick, nextId, keyEvents, last, log >>

\* fleeDungeon(false), from the flee button.
FleeDungeon ==
  /\ EventsOpen
  /\ inDungeon
  /\ inDungeon' = FALSE
  /\ animFrame' = FALSE
  /\ UNCHANGED << cur, hp, maxHp, hasKey, playerX, playerY, velX, velY, keysDown,
                  dungeonMap, defMap, enemies, ag, attackTokens, swordHitEnemies, swingFrames,
                  pc, idx, halted, visit, tick, nextId, keyEvents, swings, last, log >>

\* ------------------------------------------------------------------------
\* Specification
\* ------------------------------------------------------------------------
Next ==
  \/ \E d \in DungeonIds : EnterDungeon(d)
  \/ GameLoop
  \/ UpdateEnemyCoordination
  \/ EnemyUpdate
  \/ CheckSwordHits
  \/ CheckTileInteractions
  \/ \E k \in Keys : KeyDown(k)
  \/ \E k \in Keys : KeyUp(k)
  \/ SwingSword
  \/ FleeDungeon

Spec == Init /\ [][Next]_vars

\* The agents created over all visits carry the ids 1 .. AgentIdBound.
AgentIdBound == 8

\* The scheduling of gameLoop.  The display refresh calls gameLoop again as
\* long as a frame is requested, and a frame that has started runs to its
\* end; the player's events need not happen.  On a behaviour of Spec the
\* step that raises tick is GameLoop and a step that changes pc or idx
\* outside "idle" is a step of the frame, so the two conditions are weak
\* fairness of GameLoop and of the rest of the frame, written over the
\* variables that decide them.
FrameRequest ==
  /\ pc = "idle" /\ animFrame /\ inDungeon /\ tick < Horizon
  /\ tick' = tick + 1

FrameRuns ==
  /\ pc # "idle"
  /\ \E p \in { "idle", "coord", "update", "hits", "tiles" }, i \in 0 .. AgentIdBound :
       pc' = p /\ idx' = i

FairSpec == Spec /\ WF_tick(FrameRequest) /\ WF_<< pc, idx >>(FrameRuns)

\* ------------------------------------------------------------------------
\* Properties
\* ------------------------------------------------------------------------
\* The state right after updateEnemyCoordination: no update call of this
\* tick has run yet.
AfterCoordination == inDungeon /\ pc \in { "update", "hits" } /\ last.tick # tick

\* The state right after an update call (the call may have ended the frame).
AfterUpdate ==
  /\ last.tick = tick
  /\ last.id \in DOMAIN ag
  /\ pc \in { "update", "hits" } \/ (pc = "idle" /\ last.ended)

\* The agents eligible for a token: live collection, not dead, closer than 320.
Eligible == { e \in Live : ~ag[e].dead /\ DistToPlayer(ag[e]) < Sq(320) }

\* min(2, ceil(difficulty)) of the dungeon visited.
TokenCap == Min(2, CeilHalf(Dungeons[cur].difficulty2))

\* C1: in every state of a dungeon visit the attack-token set holds at most
\* min(2, ceil(difficulty)) agents, for every difficulty (for a difficulty of
\* 0 or below the set is empty).
C1_TokenCap == inDungeon => Cardinality(attackTokens) <= TokenCap

\* C1 witness: the coordinator has granted exactly the cap although more
\* agents were eligible.
C1_Witness ==
  /\ AfterCoordination
  /\ Cardinality(attackTokens) = TokenCap
  /\ Cardinality(Eligible) > TokenCap
  /\ TokenCap = 2

\* C2 as stated: at every point of every tick, every agent of the
\* attack-token set is within 320 units of the player's current position.
C2_Original == inDungeon => \A e \in attackTokens : DistToPlayer(ag[e]) < Sq(320)

\* C2 amended: right after updateEnemyCoordination has run, every agent of
\* the attack-token set is within 320 units of the player; the set is not
\* revised when the player or the agent moves later in the tick or at the
\* start of the next one.
C2_InRangeAtCoordination ==
  AfterCoordination => \A e \in attackTokens : DistToPlayer(ag[e]) < Sq(320)

\* C2 witness: a token granted to an agent more than 310 units away.
C2_Witness ==
  /\ AfterCoordination
  /\ \E e \in attackTokens : DistToPlayer(ag[e]) > Sq(310)

\* C3: right after updateEnemyCoordination the token set is exactly the
\* k = min(cap, n) closest of the n live agents closer than 320: every holder
\* is at most as far as every eligible agent without a token, and no eligible
\* agent is left without a token while fewer than cap tokens are granted.
C3_ClosestGetTokens ==
  AfterCoordination =>
    /\ attackTokens \subseteq Eligible
    /\ Cardinality(attackTokens) = Min(Max(0, TokenCap), Cardinality(Eligible))
    /\ \A t \in attackTokens : \A e \in Eligible \ attackTokens :
         DistToPlayer(ag[t]) <= DistToPlayer(ag[e])

\* C3 witness: tokens granted, and an eligible agent strictly farther than
\* every holder left without one.
C3_Witness ==
  /\ AfterCoordination
  /\ attackTokens # {}
  /\ \E e \in Eligible \ attackTokens :
       \A t \in attackTokens : DistToPlayer(ag[t]) < DistToPlayer(ag[e])

\* C4: after the movement of an update call (knockback, dash or steering)
\* the tile holding the agent's position is not solid, isSolid being taken on
\* the current map and the current key state.
C4_WallImpermeable ==
  (AfterUpdate /\ ~last.wasDead) => ~SolidAt(ag[last.id].x, ag[last.id].y)

\* C5: an update call that starts with hitFlash > 0 (any of 1 .. 8) leaves
\* the agent's position unchanged by steering.
C5_NoSteeringInHitStun ==
  (AfterUpdate /\ ~last.wasDead /\ last.hitFlash0 > 0) => ~last.steerMoved

\* C6: for every agent 0 <= hp <= maxHp, hp never increases, the step from
\* dead = false to dead = true happens once, on the hit that brings hp to 0
\* or below, sets deathTimer to 20 and emits the defeat effects once; a dead
\* agent is never hit again.
C6_Health ==
  [][ \A e \in DOMAIN ag \cap DOMAIN ag' :
        /\ 0 <= ag'[e].hp /\ ag'[e].hp <= ag'[e].maxHp
        /\ ag'[e].hp <= ag[e].hp
        /\ ag'[e].dead <=> ag'[e].hp <= 0
        /\ ag[e].dead => (ag'[e].dead /\ ag'[e].hp = ag[e].hp /\ log'.defeats[e] = 1)
        /\ (~ag[e].dead /\ ag'[e].dead) =>
             /\ ag[e].hp > 0
             /\ ag'[e].deathTimer = 20
             /\ log.defeats[e] = 0
             /\ log'.defeats[e] = 1 ]_vars

\* C6 witness: a fresh swing has passed its hit check with a defeated agent
\* in reach, and the agent was not hit.
C6_Witness ==
  /\ pc = "tiles"
  /\ swingFrames > 0 /\ swingFrames <= HitWindow
  /\ \E e \in Live :
       /\ ag[e].dead /\ ag[e].hp = 0 /\ log.defeats[e] = 1
       /\ e \notin swordHitEnemies
       /\ DistToPlayer(ag[e]) < Sq(SwordReach)

\* The cooldown of each attack style, in ticks.
StyleCooldown(style) ==
  CASE style = "contact" -> 60
    [] style = "sword" -> 70
    [] style = "dash" -> 90
    [] style = "projectile" -> 90

\* C7: an agent that dispatched an attack at tick t dispatches none before
\* tick t + C, C the cooldown of its style (contact 60, sword 70, dash 90,
\* projectile 90); an update call damages the player at most once; a contact
\* agent whose update reaches the dispatch with a token, its cooldown run
\* out and the player closer than 18 damages the player exactly once.
C7_CooldownRespect ==
  (AfterUpdate /\ ~last.wasDead) =>
    /\ (last.dispatched # "none" /\ last.sincePrev # 0) =>
         last.sincePrev >= StyleCooldown(last.dispatched)
    /\ last.damage <= 1
    /\ (last.steered /\ last.hasToken /\ last.cooldownAtDispatch = 0
        /\ ag[last.id].attackStyle = "contact" /\ last.dist2 < Sq(18)) =>
         (last.dispatched = "contact" /\ last.damage = 1)
    /\ (last.dispatched = "contact") => last.damage = 1

\* C7 witness: a contact agent deals its second damage 60 ticks after the
\* first.
C7_Witness ==
  /\ AfterUpdate
  /\ last.dispatched = "contact"
  /\ last.sincePrev = 60
  /\ last.damage = 1

\* C8: at the end of every completed updateEnemies pass the live collection
\* holds no agent with dead = true and deathTimer <= 0; a defeated agent
\* leaves the collection in the update call that brings its deathTimer, set
\* to 20 by takeHit, down to 0.
C8_DeathCleanup ==
  /\ pc = "hits" => \A e \in Live : ~(ag[e].dead /\ ag[e].deathTimer <= 0)
  /\ \A e \in Live : ag[e].dead => (ag[e].deathTimer >= 0 /\ ag[e].deathTimer <= 20)
  /\ (AfterUpdate /\ last.wasDead) =>
       /\ last.removed <=> ag[last.id].deathTimer = 0
       /\ last.removed <=> last.id \notin Live

\* C8 witness: the pass has ended with a defeated agent just removed.
C8_Witness ==
  /\ pc = "hits"
  /\ AfterUpdate
  /\ last.wasDead /\ last.removed
  /\ ag[last.id].deathTimer = 0
  /\ last.id \notin Live

\* C9: once an agent is dead no update call steers or moves it, dispatches
\* an attack, advances a swing or a dash for it or lets it damage the player
\* (the call changes nothing but its deathTimer), no coordinator pass grants
\* it a token, and dead is never reset.
C9_DeadIsInert ==
  [][ \A e \in DOMAIN ag \cap DOMAIN ag' :
        ag[e].dead =>
          /\ ag'[e].dead
          /\ ag'[e] = [ ag[e] EXCEPT !.deathTimer = ag'[e].deathTimer ]
          /\ (pc = "update" /\ enemies[idx] = e) =>
               (hp' = hp /\ velX' = velX /\ velY' = velY /\ inDungeon' = inDungeon
                /\ log'.damageEvents = log.damageEvents
                /\ last'.dispatched = "none" /\ ~last'.steered)
          /\ pc = "coord" => e \notin attackTokens' ]_vars

\* C9 witness: the update call of a dead agent close to the player has run,
\* and the coordinator of that tick gave it no token.
C9_Witness ==
  /\ AfterUpdate
  /\ last.wasDead /\ ~last.removed
  /\ DistToPlayer(ag[last.id]) < Sq(320)
  /\ last.id \in Live
  /\ last.id \notin attackTokens

\* C10: an update call dispatches an attack only if the agent holds a token,
\* its attackCooldown is 0 and the range gate of its own style holds
\* (contact: dist < 18; sword: dist < 28, not swinging; dash: 20 < dist < 80,
\* not dashing; projectile: 30 < dist < 150); the attack is of the agent's
\* configured style.
C10_DispatchGate ==
  (AfterUpdate /\ last.dispatched # "none") =>
    /\ last.hasToken
    /\ last.cooldownAtDispatch = 0
    /\ last.dispatched = ag[last.id].attackStyle
    /\ last.dispatched = "contact" => last.dist2 < Sq(18)
    /\ last.dispatched = "sword" => (last.dist2 < Sq(28) /\ ~last.swinging0)
    /\ last.dispatched = "dash" =>
         (last.dist2 > Sq(20) /\ last.dist2 < Sq(80) /\ ~last.dashing0)
    /\ last.dispatched = "projectile" => (last.dist2 > Sq(30) /\ last.dist2 < Sq(150))

\* C10 witness: a dash has been started.
C10_Witness ==
  /\ AfterUpdate
  /\ last.dispatched = "dash"
  /\ ag[last.id].dashing

\* C11: when an agent's damage brings the player's HP to 0 or below, the
\* defeat collaborator (fleeDungeon(true)) is invoked in that same update
\* call, the pass stops there (the remaining agents are not updated, no frame
\* is requested), the collaborator is invoked at most once per visit by agent
\* damage, and after it no agent, tick or HP changes in this visit.
C11_DefeatEndsVisit ==
  [][ /\ (pc = "update" /\ hp' < hp /\ hp' <= 0) =>
           /\ ~inDungeon'
           /\ log'.defeatCalls = log.defeatCalls + 1
           /\ pc' = "idle" /\ ~animFrame' /\ idx' = idx
      /\ log'.defeatCalls <= 1
      /\ (log.defeatCalls >= 1 /\ log'.defeatCalls >= 1) =>
           (ag' = ag /\ tick' = tick /\ hp' = hp /\ last' = last) ]_vars

\* C11 witness: an agent's contact damage has defeated the player while
\* another agent of the pass was still waiting for its update.
C11_Witness ==
  /\ log.defeatCalls = 1
  /\ ~inDungeon /\ hp <= 0
  /\ last.damage = 1 /\ last.dispatched = "contact"
  /\ pc = "idle" /\ idx > 1

\* The update call ran the dash branch and its dash step was refused.
DashStepBlocked == AfterUpdate /\ last.dashed /\ ~last.dashMoved

\* C12 as stated: a blocked dash step leaves the position of the whole
\* update call unchanged, ends the dash and deals no damage in that call.
C12_BlockedDashKeepsPosition ==
  DashStepBlocked =>
    /\ ag[last.id].x = last.x0 /\ ag[last.id].y = last.y0
    /\ ~ag[last.id].dashing
    /\ ag[last.id].dashTimer = 0
    /\ last.damage = 0

\* C12: when the next dash step would land on a solid tile, the dash step
\* does not move the agent (its position stays the one the knockback step of
\* the same call left, which is the position at the start of the call when
\* the knockback step did not move), dashing becomes false, dashTimer becomes
\* 0 and the player is not damaged in that call.
C12_BlockedDashEnds ==
  DashStepBlocked =>
    /\ ag[last.id].x = last.x1 /\ ag[last.id].y = last.y1
    /\ ~last.knockMoved => (last.x1 = last.x0 /\ last.y1 = last.y0)
    /\ ~ag[last.id].dashing
    /\ ag[last.id].dashTimer = 0
    /\ last.damage = 0

\* C12 witness: a dash ended at a wall before the fifteenth step after its
\* start, the agent standing where the call found it.
C12_Witness ==
  /\ DashStepBlocked
  /\ tick - log.dispatchTick[last.id] < 15
  /\ ag[last.id].x = last.x0 /\ ag[last.id].y = last.y0
  /\ ~ag[last.id].dashing /\ ag[last.id].dashTimer = 0

\* C13: a projectile dispatch (token held, cooldown 0, distance between 30
\* and 150) sets attackCooldown to 90 and the frame goes on to its end with
\* the next frame requested; no update call ever leaves the frame loop halted.
C13_ProjectileDispatchCompletes ==
  /\ ~halted
  /\ (AfterUpdate /\ last.dispatched = "projectile") =>
       /\ ag[last.id].attackCooldown = 90
       /\ pc \in { "update", "hits" }
       /\ animFrame

\* C14: a contact dispatch gives the attacking agent's velocity (vx, vy) an
\* impulse pointing away from the player, and leaves the player's velocity
\* as it was.
C14_RecoilOnAgent ==
  [][ (pc = "update" /\ last'.dispatched = "contact") =>
        /\ velX' = velX /\ velY' = velY
        /\ (ag'[last'.id].vx - Quot(ag[last'.id].vx * 78, 100)) * (playerX - last'.x2)
             + (ag'[last'.id].vy - Quot(ag[last'.id].vy * 78, 100)) * (playerY - last'.y2) < 0
    ]_vars

\* C15 as stated: under any sequence of ticks, dispatches and sword hits,
\* neither attackCooldown nor hitFlash of an agent increases while nonzero.
C15_CountersNeverIncrease ==
  [][ \A e \in DOMAIN ag \cap DOMAIN ag' :
        /\ ag[e].attackCooldown > 0 => ag'[e].attackCooldown <= ag[e].attackCooldown
        /\ ag[e].hitFlash > 0 => ag'[e].hitFlash <= ag[e].hitFlash ]_vars

\* C15: every update call of a live agent counts a nonzero hitFlash down by
\* one, and an attackCooldown above 1 down by one; attackCooldown increases
\* only by a dispatch in an update call that found it at 0 or counted it down
\* from 1 to 0 (it is then the cooldown of the style); hitFlash increases only
\* by a sword hit, which sets it to 8 whatever its value (a new swing may hit
\* an agent whose hitFlash is still running).
C15_CountersCountDown ==
  [][ \A e \in DOMAIN ag \cap DOMAIN ag' :
        /\ ag'[e].attackCooldown > ag[e].attackCooldown =>
             /\ pc = "update" /\ e = enemies[idx]
             /\ ag[e].attackCooldown <= 1
             /\ last'.dispatched # "none"
             /\ ag'[e].attackCooldown = StyleCooldown(last'.dispatched)
        /\ ag'[e].hitFlash > ag[e].hitFlash =>
             (pc = "hits" /\ ag'[e].hitFlash = 8 /\ ag'[e].hp = ag[e].hp - 1)
        /\ (pc = "update" /\ e = enemies[idx] /\ ~ag[e].dead) =>
             /\ ag'[e].hitFlash = Max(0, ag[e].hitFlash - 1)
             /\ ag[e].attackCooldown > 1 =>
                  ag'[e].attackCooldown = ag[e].attackCooldown - 1 ]_vars

\* C15 witness: an agent hit by a second swing while the hitFlash of the
\* first hit was still counting down.
C15_Witness ==
  \E e \in DOMAIN ag :
    /\ ag[e].hitFlash = 8
    /\ ag[e].maxHp - ag[e].hp = 2
    /\ tick <= 8

\* The state right after enterDungeon: no frame of the visit has run.
JustEntered == inDungeon /\ tick = 0

\* The centre of a tile, in hundredths.
TileCentre(t) == t * TILE * SC + (TILE * SC) \div 2

\* C16: entering a dungeon leaves only newly created agents, exactly one per
\* enemy-marker tile of the dungeon's map, each at the centre of its tile, in
\* scan order; the working grid holds no marker; the maps of the dungeon
\* definitions are never modified, so a second entry finds the same markers.
C16_EntrySpawnsAtMarkers ==
  /\ defMap = [ d \in DungeonIds |-> Dungeons[d].map ]
  /\ inDungeon => EnemyCount(dungeonMap) = 0
  /\ JustEntered =>
       /\ Len(enemies) = EnemyCount(Dungeons[cur].map)
       /\ Len(enemies) = Len(MarkerCells(Dungeons[cur].map))
       /\ DOMAIN ag = Live
       /\ \A k \in 1 .. Len(enemies) :
            /\ enemies[k] = nextId - Len(enemies) + k
            /\ ag[enemies[k]].x = TileCentre(MarkerCells(Dungeons[cur].map)[k][1])
            /\ ag[enemies[k]].y = TileCentre(MarkerCells(Dungeons[cur].map)[k][2])
            /\ ~ag[enemies[k]].dead
            /\ ag[enemies[k]].hp = ag[enemies[k]].maxHp

\* C16 witness: the four-marker arena entered a second time, with four new
\* agents after the four of the first visit.
C16_Witness ==
  /\ JustEntered
  /\ visit = 2
  /\ cur = 3
  /\ nextId = 8
  /\ Len(enemies) = 4
  /\ enemies[1] = 5
  /\ ag[5].x = TileCentre(1) /\ ag[5].y = TileCentre(1)

\* C17: once state.inDungeon is false (defeat, flee button, exit tile) no
\* frame is running or requested, and until the next entry no agent, token
\* set, player HP or tick changes: an agent left in the middle of a swing or
\* a dash stays as it is.
C17_LeftDungeonFrozen ==
  /\ [](~inDungeon => (pc = "idle" /\ ~animFrame))
  /\ [][ (~inDungeon /\ ~inDungeon') =>
           /\ ag' = ag
           /\ enemies' = enemies
           /\ attackTokens' = attackTokens
           /\ hp' = hp
           /\ tick' = tick
           /\ last' = last ]_vars

\* C17 witness: the dungeon was left by the flee button while an agent was
\* in the middle of its dash.
C17_Witness ==
  /\ ~inDungeon
  /\ visit >= 1
  /\ hp > 0
  /\ \E e \in Live : ag[e].dashing /\ ag[e].dashTimer > 0 /\ ag[e].dashTimer < 15

\* C18 as stated: no update call changes the agent's position both by the
\* knockback step and by the steering move.
C18_KnockbackExcludesSteering ==
  AfterUpdate => ~(last.knockMoved /\ last.steerMoved)

\* C18: an update call neither steers nor dashes when hitFlash is above 0
\* after the countdown or the knockback speed of the call is above 1.5; the
\* knockback step moves the agent only when that speed is above 0.1, so the
\* two moves share an update call only for a speed above 0.1 and at most 1.5
\* with no hit-stun left.
C18_SteeringSkippedAboveThreshold ==
  (AfterUpdate /\ ~last.wasDead) =>
    /\ (last.steered \/ last.dashed) =>
         (last.kbSpeed2 <= 150 * 150 /\ last.hitFlash0 <= 1)
    /\ (last.kbSpeed2 > 150 * 150 \/ last.hitFlash0 > 1) =>
         /\ ~last.steerMoved /\ ~last.dashMoved /\ last.dispatched = "none"
         /\ ag[last.id].x = last.x1 /\ ag[last.id].y = last.y1
    /\ last.knockMoved => last.kbSpeed2 > 10 * 10
    /\ (last.knockMoved /\ last.steerMoved) =>
         (last.x1 # last.x0 \/ last.y1 # last.y0)

\* C18 witness: an update call right after the hit-stun, in which the
\* residual knockback and the steering move both changed the position.
C18_Witness ==
  /\ AfterUpdate
  /\ last.knockMoved /\ last.steerMoved
  /\ last.hitFlash0 = 1
  /\ last.kbSpeed2 > 10 * 10 /\ last.kbSpeed2 <= 150 * 150
  /\ (last.x2 # last.x1 \/ last.y2 # last.y1)

\* C19: in every tick the coordinator pass runs after the player's movement
\* and before any update call; every update call of tick t finds the token
\* set computed in tick t and the player where the coordinator saw them; the
\* sword hit checks (takeHit) and the tile interactions run only after every
\* agent of the live collection has been updated in the tick.
C19_FrameOrder ==
  [][ /\ pc = "coord" => (tick' = tick /\ log.updated = {} /\ log.coordTick = tick - 1)
      /\ pc = "update" =>
           /\ log.coordTick = tick
           /\ attackTokens = log.coordTokens
           /\ ~last'.wasDead => (last'.hasToken <=> last'.id \in log.coordTokens)
      /\ pc \in { "coord", "update", "hits", "tiles" } =>
           (playerX' = playerX /\ playerY' = playerY /\ tick' = tick)
      /\ pc = "hits" => (idx = 0 /\ Live \subseteq log.updated /\ log.coordTick = tick)
      /\ pc = "tiles" => (Live \subseteq log.updated /\ log.coordTick = tick)
      /\ (\E e \in DOMAIN ag \cap DOMAIN ag' : ag'[e].hp < ag[e].hp) => pc = "hits"
      /\ (inDungeon /\ dungeonMap' # dungeonMap) => pc = "tiles" ]_vars

\* C19 witness: a frame at its tile interactions, after the coordinator
\* granted tokens and both agents of the pass were updated.
C19_Witness ==
  /\ pc = "tiles"
  /\ tick >= 2
  /\ log.coordTick = tick
  /\ Cardinality(Live) >= 2
  /\ log.updated = Live
  /\ attackTokens # {}
  /\ attackTokens = log.coordTokens

\* C20: within one sword swing the blade-tip damage check is made at most
\* once, in the swing's tenth swing update (the call that starts the swing
\* makes the first, timer 20 to 19); a swing damages the player at most once;
\* no swing is started while one is in progress.
C20_OneTipCheckPerSwing ==
  /\ \A e \in DOMAIN ag :
       /\ log.tipChecks[e] <= 1
       /\ log.swingHits[e] <= log.tipChecks[e]
       /\ log.tipChecks[e] = 1 => log.swingUpdates[e] >= 10
       /\ ag[e].swordSwinging => ag[e].swordSwingTimer = 20 - log.swingUpdates[e]
  /\ (AfterUpdate /\ last.tipCheck) => log.swingUpdates[last.id] = 10
  /\ (AfterUpdate /\ last.dispatched = "sword") =>
       /\ ~last.swinging0
       /\ log.swingUpdates[last.id] = 1
       /\ ag[last.id].swordSwingTimer = 19

\* C20 witness: a swing that ran its twenty updates and damaged the player
\* once, at its single tip check.
C20_Witness ==
  \E e \in DOMAIN ag :
    /\ log.swingUpdates[e] = 20
    /\ ~ag[e].swordSwinging
    /\ log.tipChecks[e] = 1
    /\ log.swingHits[e] = 1

\* C21: through a whole dash dashDirX / dashDirY keep the value captured at
\* the dash start, which is the unit direction from the agent to the player
\* at that moment and never the zero vector; a dash makes at most 15 movement
\* steps and damages the player at most once.
C21_DashFixedDirection ==
  /\ \A e \in DOMAIN ag :
       /\ log.dashSteps[e] <= 15
       /\ log.dashHits[e] <= 1
       /\ ag[e].dashing =>
            /\ << ag[e].dashDirX, ag[e].dashDirY >> = log.dashDir0[e]
            /\ log.dashDir0[e] # << 0, 0 >>
            /\ ag[e].dashTimer = 15 - log.dashSteps[e]
  /\ (AfterUpdate /\ last.dispatched = "dash") =>
       /\ ag[last.id].dashDirX * (playerX - last.x1)
            + ag[last.id].dashDirY * (playerY - last.y1) > 0
       /\ Abs(ag[last.id].dashDirX * (playerY - last.y1)
               - ag[last.id].dashDirY * (playerX - last.x1))
            <= Abs(playerX - last.x1) + Abs(playerY - last.y1)
       /\ Abs(ag[last.id].dashDirX * ag[last.id].dashDirX
               + ag[last.id].dashDirY * ag[last.id].dashDirY - K * K) <= 4 * K

\* C21 witness: a dash that made its fifteen steps in the direction taken at
\* its start and damaged the player once on the way.
C21_Witness ==
  \E e \in DOMAIN ag :
    /\ ~ag[e].dashing
    /\ log.dashSteps[e] = 15
    /\ log.dashHits[e] = 1
    /\ << ag[e].dashDirX, ag[e].dashDirY >> = log.dashDir0[e]
    /\ log.dashDir0[e] # << 0, 0 >>

\* C22: the token set a coordinator pass produces does not depend on the
\* token set it finds: from the same agents, positions, dead flags, player
\* position and difficulty, every previous token set leads to the set the
\* pass produces.
C22_NoTokenCarryOver ==
  [][ pc = "coord" =>
        \A T \in SUBSET DOMAIN ag : CoordinatorPass(T) = attackTokens' ]_vars

\* C22 witness: a coordinator pass that found one token set and left
\* another, a holder of the previous tick having lost its token.
C22_Witness ==
  /\ pc \in { "update", "hits" }
  /\ log.coordTick = tick
  /\ attackTokens = log.coordTokens
  /\ log.prevTokens # {}
  /\ log.prevTokens \ attackTokens # {}
  /\ attackTokens # {}

\* C23: the direction chosen among the 16 final scores is the lowest index
\* holding the maximum score; the steering move happens only when that
\* maximum is above 0.01, and when every score is at most 0.01 the steering
\* step leaves the position as the knockback step left it.
C23_BestDirection ==
  (AfterUpdate /\ last.steered) =>
    /\ last.bestI \in 0 .. (NUM_DIRS - 1)
    /\ \A j \in 0 .. (NUM_DIRS - 1) :
         /\ last.scores[j + 1] <= last.scores[last.bestI + 1]
         /\ j < last.bestI => last.scores[j + 1] < last.scores[last.bestI + 1]
    /\ last.steerMoved => last.scores[last.bestI + 1] > 10
    /\ (\A j \in 0 .. (NUM_DIRS - 1) : last.scores[j + 1] <= 10) =>
         (last.x2 = last.x1 /\ last.y2 = last.y1)

\* C23 witness: a steering move along the first of several directions
\* sharing the highest score.
C23_Witness ==
  /\ AfterUpdate /\ last.steered /\ last.steerMoved
  /\ \E j \in 0 .. (NUM_DIRS - 1) :
       /\ j > last.bestI
       /\ last.scores[j + 1] = last.scores[last.bestI + 1]
  /\ (last.x2 # last.x1 \/ last.y2 # last.y1)

\* A steering step that found no score above 0.01 and kept the position.
C23_NoMove ==
  /\ AfterUpdate /\ last.steered /\ ~last.steerMoved
  /\ \A j \in 0 .. (NUM_DIRS - 1) : last.scores[j + 1] <= 10

\* The passes of updateEnemies that run to their end: every agent of the
\* live collection at the start of the pass is updated exactly once,
\* whichever agents the pass removes.
PassUpdatesEachOnce ==
  /\ pc = "update" =>
       /\ log.calls = Cardinality(log.updated)
       /\ log.updated \subseteq log.startLive
       /\ idx \in 1 .. Len(enemies)
       /\ { enemies[k] : k \in 1 .. idx } = log.startLive \ log.updated
  /\ pc \in { "hits", "tiles" } =>
       /\ log.updated = log.startLive
       /\ log.calls = Cardinality(log.startLive)

\* A pass over two agents that removed the one updated first and still
\* updated the other.
PassWithRemoval ==
  /\ pc = "hits"
  /\ Cardinality(log.startLive) = 2
  /\ Len(enemies) = 1
  /\ log.updated = log.startLive
  /\ log.calls = 2
  /\ enemies[1] = last.id
  /\ ~last.wasDead

\* C24: in every pass of updateEnemies that the player's leaving does not
\* cut short, every agent of the live collection at the start of the pass is
\* updated exactly once, whichever agents the pass removes.
C24_EveryAgentUpdatedOnce ==
  /\ PassUpdatesEachOnce
  /\ (pc = "idle" /\ inDungeon /\ tick > 0 /\ log.coordTick = tick) =>
       /\ log.updated = log.startLive
       /\ log.calls = Cardinality(log.startLive)

\* The agents in the middle of an attack: alive, swinging or dashing.
MidAttack == { e \in Live : ~ag[e].dead /\ (ag[e].swordSwinging \/ ag[e].dashing) }

\* C25: in every tick the number of distinct agents that damage the player
\* and the number of agents in the middle of an attack (sword swing or dash)
\* are both at most the token cap min(2, ceil(difficulty)).
C25_AggressorsWithinCap ==
  inDungeon =>
    /\ Cardinality(log.damagers) <= TokenCap
    /\ Cardinality(MidAttack) <= TokenCap

\* C26: in every state of a visit every agent's position lies inside the
\* grid (0 <= floor(x / TILE) < mapCols and 0 <= floor(y / TILE) < mapRows),
\* whatever knockback, dash or steering moves occurred and whatever the key
\* and door state.
C26_AgentsInsideGrid ==
  \A e \in DOMAIN ag :
    /\ TileOf(ag[e].x) >= 0 /\ TileOf(ag[e].x) < mapCols
    /\ TileOf(ag[e].y) >= 0 /\ TileOf(ag[e].y) < mapRows

\* C26 witness: on a strip without walls, a knockback step toward the edge
\* of the grid was refused and the agent stayed on its floor tile.
C26_Witness ==
  /\ AfterUpdate
  /\ cur = 17
  /\ last.kbSpeed2 > 10 * 10
  /\ ~last.knockMoved
  /\ ag[last.id].vx < 0
  /\ ag[last.id].x < 5 * SC
  /\ TileOf(ag[last.id].x) = 0
  /\ TileAt(dungeonMap, 0, 0) = T_FLOOR

\* C27: at the update call that makes a swing's damage check, the blade
\* angle is within 60 degrees of the direction toward the player taken when
\* the swing started, for both swing directions.
C27_BladeNearAimAtCheck ==
  (AfterUpdate /\ last.tipCheck) =>
    Abs(WrapAngle(ag[last.id].swordAngle - log.swingAim[last.id])) <= 1047 + 10

\* C28: while the in-dungeon flag is true the player's HP is above 0 and at
\* most maxHp, at the start of a tick and at every later step of it: agent
\* damage or a trap that brings HP to 0 or below clears the flag at once.
C28_TickStartsWithHP ==
  inDungeon => (hp > 0 /\ hp <= maxHp)

\* A tick starts in the trap corridor after the first trap and the heal.
C28_Witness ==
  /\ pc = "coord" /\ cur = 18 /\ inDungeon
  /\ TileAt(dungeonMap, 2, 1) = T_FLOOR /\ TileAt(dungeonMap, 3, 1) = T_FLOOR
  /\ hp = maxHp

\* The visit of the trap corridor ended by the last trap.
C28_TrapDefeat ==
  /\ cur = 18 /\ ~inDungeon /\ hp <= 0 /\ TileAt(dungeonMap, 5, 1) = T_FLOOR

\* Agent id is alive and in the middle of a dash.
MidDash(id) == id \in DOMAIN ag /\ ag[id].dashing /\ ~ag[id].dead

\* The frame loop has stopped: the visit is over, no frame is requested, or
\* the frames followed in this visit are used up.
FrameLoopStopped ==
  pc = "idle" /\ (~inDungeon \/ ~animFrame \/ tick >= Horizon)

\* The update call just made returned at the hit-stun/knockback test while
\* the agent was dashing.
PausedDashCall ==
  /\ pc = "update" /\ last'.tick = tick /\ ~last'.wasDead
  /\ ag[last'.id].dashing /\ ~last'.dashed

\* The update call just made ran the dash branch.
DashCall ==
  /\ pc = "update" /\ last'.tick = tick /\ last'.dashed

\* The hit-stunned update calls one player hit can cause: hitFlash = 8 is
\* counted down before it is tested.
PAUSE_PER_HIT == 7

\* C29: as long as the frame loop keeps ticking, an agent that is in a dash
\* comes to dashing = false or dies.  The dash timer of a dashing agent is
\* between 1 and 15 and every call of the dash branch lowers it; an update
\* call paused by hit-stun or knockback leaves it alone, and the paused
\* calls of a dash number at most seven per player hit taken since the dash
\* started.
C29_EveryDashEnds ==
  /\ \A id \in 1 .. AgentIdBound : []<>(~MidDash(id) \/ FrameLoopStopped)
  /\ [][ DashCall => ag'[last'.id].dashTimer < ag[last'.id].dashTimer ]_vars
  /\ [][ PausedDashCall =>
           /\ ag'[last'.id].dashTimer = ag[last'.id].dashTimer
           /\ ag'[last'.id].dashing ]_vars
  /\ [](\A id \in DOMAIN ag :
           /\ MidDash(id) => (ag[id].dashTimer >= 1 /\ ag[id].dashTimer <= 15)
           /\ log.dashPauses[id] <= PAUSE_PER_HIT * (log.dashHp0[id] - ag[id].hp))

\* A dash that a player hit paused has ended, the agent alive.
C29_Witness ==
  /\ AfterUpdate /\ last.dashed /\ ~last.wasDead
  /\ log.dashPauses[last.id] > 0
  /\ ~ag[last.id].dashing /\ ~ag[last.id].dead

\* C30 as stated: in every state every member of the attack-token set is
\* an agent of the live collection that is not dead.
C30_TokenHoldersAlwaysLive ==
  \A e \in attackTokens : e \in Live /\ ~ag[e].dead

\* C30 as amended: in every state every token holder is in the live
\* collection of the current visit, and from the coordinator pass to the
\* end of the frame's update calls, where the set is read, none is dead.
C30_TokenHoldersLiveWhenRead ==
  /\ attackTokens \subseteq Live
  /\ Live \subseteq DOMAIN ag
  /\ pc \in { "update", "hits" } => \A e \in attackTokens : ~ag[e].dead

\* A holder killed by the player's sword has lost its token to the other
\* agent at the next coordinator pass.
C30_Witness ==
  /\ AfterCoordination /\ log.coordTick = tick /\ attackTokens # {}
  /\ \E e \in log.prevTokens : e \in Live /\ ag[e].dead /\ e \notin attackTokens

====
